---- MODULE Spec2Model ----
(***************************************************************************)
(* Model of nn-arch-viz: the host state of App (layers, settings), the     *)
(* editing handlers of Sidebar (updateSetting, updateLayerNeuron,          *)
(* removeLayer, addLayer) and the layout pass of NetworkGraph (the useMemo *)
(* callback that derives nodes and links).                                 *)
(*                                                                         *)
(* Objects.  A LayerConfig is a JavaScript object; an array of layers      *)
(* holds references.  heap maps an address to the object stored there and  *)
(* layers is a sequence of addresses, so that copying the array            *)
(* ([...layers]) copies references and an assignment to a field of         *)
(* newLayers[index] is seen through every array that holds that address.   *)
(*                                                                         *)
(* Numbers.  Coordinates are stored in quarter pixels (Scale units per     *)
(* pixel).  With integer width, height, layerSpacing and nodeDiameter      *)
(* every coordinate the code computes is a multiple of 1/4 below 2^53, so  *)
(* the IEEE doubles of the code are exact and so are the integers here.    *)
(* A weight is stored as floor(weight * 10000).                            *)
(*                                                                         *)
(* Time.  Date.now() is read from the variable now, which counts           *)
(* milliseconds from the load of the module types.ts.                      *)
(***************************************************************************)
EXTENDS Integers, Sequences, FiniteSets, TLC

VARIABLES heap, layers, settings, dimensions, now,
          nodes, links, weightCounter, rendered,
          lastOp, held, budget

vars == <<heap, layers, settings, dimensions, now,
          nodes, links, weightCounter, rendered, lastOp, held, budget>>

\* ------------------------------------------------------------------ bounds

\* Spec: handler invocations explored from the initial state, and how many
\* of them may be updateLayerNeuron and how many updateSetting.
MaxOps == 3
MaxNeuronEdits == 1
MaxSettingOps == 1
\* Largest value the clock reaches.
MaxTime == 2
\* LayoutSpec, EditSpec: longest layer sequence and largest neuron count drawn
\* in the initial state.
MaxInitLayers == 3
MaxInitNeurons == 3
\* LayoutSpec: passes run on the same props.
MaxRenders == 2

\* --------------------------------------------------------------- constants

MinNeurons == 1
MaxNeurons == 50
DefaultNeurons == 5
InitWidth == 800
InitHeight == 600
Scale == 4

\* 'l1' is [prefix |-> "l", n |-> 1]; `l-${t}` is [prefix |-> "l-", n |-> t].
LayerId(p, k) == [prefix |-> p, n |-> k]

\* The four objects of DEFAULT_LAYERS live at addresses 1..4.
DefaultHeap ==
  <<[id |-> LayerId("l", 1), neurons |-> 18],
    [id |-> LayerId("l", 2), neurons |-> 12],
    [id |-> LayerId("l", 3), neurons |-> 10],
    [id |-> LayerId("l", 4), neurons |-> 1]>>

DEFAULT_LAYERS == <<1, 2, 3, 4>>

DEFAULT_SETTINGS(t) ==
  [edgeColor |-> "#888888",
   useBezier |-> TRUE,
   nodeDiameter |-> 20,
   nodeColor |-> "#ffffff",
   nodeBorderColor |-> "#333333",
   layerSpacing |-> 200,
   direction |-> "horizontal",
   showBias |-> FALSE,
   showLabels |-> TRUE,
   arrowheads |-> "none",
   weightSeed |-> t]

SettingKeys == {"edgeColor", "useBezier", "nodeDiameter", "nodeColor",
                "nodeBorderColor", "layerSpacing", "direction", "showBias",
                "showLabels", "arrowheads", "weightSeed"}

\* ------------------------------------------------------------ layout pass

\* floor(frac(sin(n) * 10000) * 10000) for n = 0, 1, 2, ...
SinFrac ==
  <<
    0, 7098, 9742, 2000, 9750, 7572, 8450, 8659, 5824, 1848, 7888, 979, 2708, 6703, 735, 8784,
    9668, 250, 1275, 7720, 4525, 5563, 4869, 7959, 2163, 4824, 5845, 7592, 578, 6611, 6837, 6235,
    2668, 1186, 8268, 1733, 2114, 6186, 6857, 9538, 1316, 7733, 7845, 2525, 192, 352, 8834, 7312,
    4533, 4734, 2514, 2917, 2759, 2515, 1095, 4482, 4899, 6475, 7264, 3800, 8937, 8222, 1930, 5570,
    2603, 2867, 4884, 8002, 7231, 1518, 9068, 5465, 2336, 2804, 5373, 1836, 763, 2015, 7845, 8733,
    1134, 1200, 2878, 6446, 9032, 2438, 4155, 8216, 9830, 6940, 9666, 8751, 3393, 1785, 4801, 6171,
    8774, 773, 1812, 9316, 3435, 2578, 2679, 8863, 7759, 6471, 5749, 8174, 1850, 4260, 5732, 4855,
    439, 1809, 8038, 3533, 6139, 205, 4783, 9589, 1118, 1522, 1315, 9650, 1301, 5954, 9082, 3006,
    3771, 2660, 9404, 9661, 8358, 6575, 2481, 6868, 6679, 8554, 4774, 8013, 3965, 7136, 499, 5463,
    7840, 4516, 6917, 4402, 6660, 5135, 2357, 4988, 2052, 58, 7966, 8801, 1538, 5145, 2409, 1973,
    2525, 9221, 4964, 8982, 3277, 9727, 9156, 4981, 2671, 13, 4945, 9086, 5914, 8946, 3802, 6540,
    5223, 8978, 7533, 2216, 4736, 4859, 1893, 8040, 8438, 2118, 7606, 2897, 7633, 1795, 9927, 854,
    6164, 4342, 1367, 5466, 3005, 584, 2140, 116, 270, 974, 1840, 970, 2035, 249, 5809, 9497,
    6793, 6664, 1851, 5214, 5290, 2938, 9945, 4562, 5848, 1839, 7547, 8525, 9871, 3879, 5083, 5348,
    7900, 512, 5618, 5859, 2306, 6236, 3579, 1581, 2327, 3928, 1669, 8664, 6791, 4213, 2388, 9068,
    4515, 6171, 8809, 9065, 6370, 8743, 5999, 718, 5211, 3680, 7198, 613, 1221, 2372, 9889, 836,
    9196, 4282, 3562, 9318, 3970, 1879, 829, 5281, 1748, 1017, 5402, 6817, 6498, 5311, 5405, 1081,
    5693, 15, 8859, 1467, 1433, 431, 2109, 8278, 9057, 4856, 5023, 5251, 6396, 7159, 8524, 5905,
    9562, 7897, 4563, 1422, 2598, 9900, 9001, 1808, 6125, 6905, 3762, 2327, 4416, 3595, 5283, 3250,
    680, 9605, 3828, 6463, 303, 137, 8768, 7178, 852, 9050, 709, 3326, 8734, 3978, 3879, 2500,
    4457, 826, 1225, 153, 3478, 6372, 8866, 3480, 8473, 3894, 1837, 885, 9565, 7883, 7214, 3294,
    4740, 9284, 1080, 2555, 1074, 323, 3968, 164, 966, 418, 4595, 6263, 6387, 5555, 6717, 1720,
    4985, 997, 5469, 6985, 1272, 1511, 983, 2219, 1572, 8655, 9067, 4613, 898, 4640, 9007, 4748,
    560, 8852, 3506, 3218, 578, 6734, 9298, 4244, 6087, 8145, 3646, 6557, 2187, 2204, 3287, 2322,
    5643, 2697, 1007, 4817, 8854, 4289, 991, 8271, 1506, 263, 9657, 694, 5243, 3360, 5800, 6793,
    8064, 2468, 5679, 7395, 4359, 4576, 4845, 7732, 253, 1404, 5450, 2528, 811, 2375, 8523, 3933,
    2554, 6039, 1458, 6214, 8827, 8128, 3558, 1441, 5486, 9022, 5466, 579, 9414, 4108, 5384, 6751,
    8077, 4740, 3967, 9198, 6458, 4259, 2801, 3017, 529, 7001, 66, 7157, 1521, 1684, 4246, 8495,
    7257, 2276, 1627, 1769, 2014, 656, 563, 3964, 4732, 7014, 3494, 5094, 4254, 2180, 8863, 7017,
    7478, 7279, 6659, 8185, 5190, 93, 7448, 6789, 1976, 4646, 7611, 6427, 8624, 1297, 3025, 8978,
    1671, 8071, 6292, 8317, 296, 1702, 8577, 8631, 1932, 8916, 6134, 5167, 438, 2290, 9822, 6630,
    5672, 1939, 4362, 9533, 2819, 2829, 7988, 6176, 5539, 5535, 2059, 6865, 1724, 5042, 2666, 7040,
    1849, 5765, 9059, 415, 2924, 4412, 8199, 4299, 472, 3482, 7670, 7555, 7579, 2226, 264, 6212,
    3999, 7254, 1655, 1769, 9576, 3911, 790, 7067, 4082, 5159, 9832, 2210, 709, 4800, 6875, 9715,
    5565, 9872, 1568, 6653, 6279, 6487, 1592, 5962, 1241, 864, 1305, 8261, 6016, 6376, 112, 916,
    1858, 3515, 7666, 816, 3589, 812, 7411, 4882, 4623, 7246, 4841, 6315, 1095, 3459, 9627, 7126,
    4722, 6408, 7661, 3860, 8380, 1424, 2051, 8394, 6608, 8794, 8139, 4995, 3459, 8184, 3790, 6007,
    6356, 5428, 8003, 4502, 5696, 4190, 2309, 2114, 8244, 2260, 413, 7750, 8388, 2075, 6531, 6421,
    7933, 2799, 1762, 923, 3247, 3648, 137, 8230, 1043, 127, 2830, 5253, 7632, 6135, 6194, 5218,
    3531, 1627, 6868, 5058, 2847, 3481, 8199, 5865, 6982, 7797, 4206, 3720, 5661, 2757, 1832, 2671,
    4750, 4470, 5421, 8876, 9088, 3741, 9758, 373, 2130, 220, 5320, 1550, 3453, 8949, 244, 5650,
    3904, 1948, 6258, 1556, 3302, 7077, 1606, 6705, 8559, 2814, 5835, 820, 9743, 6314, 4663, 2069,
    8900, 8427, 7113, 2818, 6615, 8734, 2361, 9279, 4092, 8878, 3617, 646, 8055, 1150, 393, 8827,
    9102, 1134, 7935, 8239, 2705, 8090, 4558, 6636, 88, 8767, 2379, 9047, 7052, 2658, 3298, 5885,
    7338, 4137, 6308, 2030, 7748, 6159, 6028, 355, 7233, 6032, 5809, 9282, 4238, 3204, 4947, 6355,
    2830, 1006, 7795, 2174, 1559, 4203, 3894, 8592, 5256, 3681, 6985, 2261, 8840, 4747, 4721, 800,
    9745, 5831, 4775, 2101, 7767, 1750, 7697, 1105, 3152, 6284, 1343, 801, 2615, 1146, 7295, 1780,
    5433, 5872, 6220, 3519, 6229, 1329, 674, 6547, 8332, 7391, 1776, 6978, 6095, 4616, 43, 1900,
    7983, 9151, 3195, 6667, 5990, 1513, 4966, 9476, 8857, 4880, 9885, 7507, 2886, 3602, 6504, 8366,
    6409, 7393, 5733, 1828, 2673, 3331, 469, 5883, 8603, 7950, 4932, 6503, 1842, 1651, 5855, 16,
    6964, 2756, 9616, 3699, 646, 573, 7686, 5196, 6873, 9556, 8634, 7956, 3291, 4147, 2051, 5019,
    9888, 4099, 4114, 781, 9709, 1825, 3188, 7809, 1773, 1568, 281, 5840, 5923, 5187, 6026, 1228,
    6089, 4297, 742, 703, 4773, 4407, 9593, 6745, 7190, 3183, 4379, 9558, 9685, 863, 2986, 569,
    644, 2341, 2773, 1519, 5621, 5810, 3092, 9844, 7423, 9620, 987, 3786, 6572, 892, 4216, 6492,
    1948, 5864, 4381, 1155, 6060, 9908, 6643, 4930, 6209, 4618, 8123, 9327, 3878, 9677, 2218, 4827,
    600, 383, 1660, 3053, 1688, 148, 1237, 1868, 4642, 6202, 1128, 6975, 7786, 2294, 7141, 6462,
    2792, 3351, 2936, 7073, 327, 6008, 527, 3098, 5658, 1348, 5070, 6933, 6131, 7273, 3207, 6992,
    5405, 8805, 6131, 6033, 7158, 5170, 1574, 6157, 6522, 9962, 4944, 7815, 5562, 5754, 1520, 5969,
    5532, 2219, 5876, 6675, 2099, 9328, 4378, 2726, 1533, 36, 905, 545, 8830, 2140, 7681, 9153,
    1962, 3755, 1193, 3073, 6754, 4925, 6479, 2436, 2808, 6316, 9400, 4766, 9478, 8454, 9286, 9542,
    8651, 6322, 5936, 1760, 4511, 5637, 8956, 9222, 9140, 405, 9568, 6034, 8915, 9058, 7743, 3718,
    2326, 792, 3064, 7625, 1340, 5181, 4189, 4289, 4177, 2133, 6835, 5602, 2295, 3308, 3500, 3821,
    9462, 1083, 8259, 3340, 2535, 3251, 2684, 3924, 7954, 9059, 6654, 5839, 557, 7550, 773, 6186,
    8337, 7184, 4282, 8595, 819, 4232, 6205, 3788, 2016, 323, 6286, 2742, 5601, 1150, 7506, 1462,
    6661, 7347, 7126, 8220, 9265, 3272, 9905, 5942, 1305, 5123, 7963, 5443, 3376, 9283, 234, 9994,
    5861, 8328, 2778, 3912, 516, 834, 8779, 5304, 2739, 8328, 5653, 9498, 8497, 5077, 939, 5477,
    87, 7140, 1841, 9767, 5007, 5661, 953, 3505, 2212, 956, 8015, 4021, 6952, 6160, 9861, 2866,
    4522, 5491, 6391, 9698, 8980, 9660, 5090, 8028, 8086, 8991, 2237, 2752, 3337, 1784, 9389, 4173,
    6858, 3999, 6211, 8304, 5049, 8126, 153, 1767, 5492, 9787, 8934, 9405, 6439, 9042, 6891, 4505,
    8050, 4715, 1195, 5771, 2453, 765, 4897, 5073, 1661, 1254, 2546, 8758, 371, 8715, 5789, 6404,
    5316, 7384, 5386, 1657, 3172, 9674, 4110, 1978, 5514, 3852, 2218, 4155, 6679, 8787, 9497, 5204,
    7329, 6410, 3853, 3072, 9827, 1781, 8264, 9911, 9369, 9863, 1775, 8533, 1297, 7117, 6463, 9314,
    6630, 1132, 8446, 4386, 241, 2271, 5343, 6431, 7225, 2857, 7592, 5596, 322, 8765, 9354, 6402,
    8211, 803, 5707, 8041, 2938, 4753, 957, 3302, 9689, 5436, 9190, 6358, 9413, 2647, 6342, 3506,
    2013, 1518, 8918, 6523, 8379, 9537, 6922, 2380, 4892, 2495, 6211, 3916, 5055, 2610, 8949, 1713,
    2139, 8859, 8423, 6420, 5494, 7823, 1289, 6816, 4015, 4281, 7490, 2323, 2770, 1849, 6887, 1319,
    6155, 4701, 5290, 1059, 5603, 4196, 5839, 2114, 1124, 6297, 7215, 3167, 2562, 9453, 872, 8760,
    2973, 8007, 2765, 6572, 8968, 466, 9893, 9369, 8046, 5755, 6686, 6802, 6803, 675, 1967, 9266,
    5579, 3507, 6364, 9614, 6422, 4411, 287, 9472, 6414, 2290, 7524, 2195, 5710, 3897, 4892, 6873,
    4148, 5323, 9999, 2811, 2277, 6820, 6073, 2166, 1992, 6034, 4095, 6141, 2663, 5228, 9745, 1629,
    3649, 644, 6965, 5474, 5934, 1120, 1926, 9392, 3682, 7382, 6165, 5509, 7874, 9795, 2299, 3543,
    7579, 9641, 8233, 7891, 8699, 1605, 7496, 1062, 2145, 2538, 9431, 191, 5057, 9084, 2221, 8782,
    2677, 3675, 2526, 622, 822, 1705, 8546, 8177, 6961, 1162, 8308, 8071, 9050, 2633, 6887, 2040,
    9052, 9259, 4931, 9211, 2219, 8652, 1217, 5692, 2768, 6563, 8572, 8164, 7533, 463, 1811, 7611,
    9176, 9277, 6695, 8318, 6001, 809, 8568, 459, 8074, 5754, 3061, 350, 2121, 6317, 6190, 8664,
    9577, 6902, 4172, 4375, 5387, 5783, 8904, 6412, 5276, 6031, 9120, 8889, 7746, 722, 5954, 5982,
    1863, 4167, 7331, 361, 642, 3677, 4658, 3042, 6341, 7370, 1499, 8654, 7391, 4793, 5021, 4368,
    7814, 8885, 1955, 7126, 2950, 5615, 3073, 7832, 396, 4200, 6686, 6430, 8784, 2056, 913, 4238,
    7466, 9073, 1993, 7165, 2421, 430, 3127, 5847, 2367, 6062, 5240, 9416, 2057, 3612, 4724, 63,
    1869, 993, 27, 7749, 4069, 862, 7771, 1033, 2883, 7645, 2383, 9623, 8121, 6933, 9237, 9642,
    9444, 8958, 2811, 1535, 7279, 6776, 3644, 4069, 8971, 7592, 8698, 7265, 2726, 1025, 8036, 836,
    572, 5416, 8373, 2753, 3273, 5828, 3022, 9219, 2248, 6686, 3623, 5346, 6815, 8359, 4150, 1865,
    793, 1442, 1095, 4750, 5188, 7325, 8701, 4502, 7454, 5111, 51, 7457, 7328, 6085, 2831, 1759,
    2539, 3496, 6703, 1738, 673, 3927, 7445, 2950, 702, 1641, 7502, 7930, 9804, 566, 4328, 9454,
    831, 568, 9529, 5086, 1880, 3091, 4262, 6761, 5840, 5614, 6491, 4975, 6598, 9618, 1934, 9797,
    3833, 3333, 3903, 9430, 6342, 3566, 4027, 24, 6377, 7302, 3686, 8796, 5938, 3810, 5508, 9604,
    4423, 1475, 7064, 785, 935, 934, 863, 8944, 183, 5452, 464, 5807, 5415, 831, 4976, 6706,
    399, 2542, 6888, 4857, 9293, 2584, 6514, 6669, 1580, 5901, 744, 6157, 8345, 5173, 7928, 4838,
    5314, 2438, 788, 6796, 6380, 2926, 5931, 2928, 7225, 7165, 9710, 7842, 761, 639, 7455, 255,
    2969, 8927, 8599, 4374, 1765, 9641, 6255, 1679, 7406, 7160, 9573, 3757, 7251, 4758, 1751, 189,
    7520, 9090, 3680, 6547, 5843, 807, 7978, 3804, 8240, 2350, 726, 1162, 4891, 1853, 9950, 7230,
    7134, 3282, 121, 4430, 6145, 3009, 8970, 6639, 226, 1818, 8508, 844, 6355, 5650, 1193, 4711,
    4598, 2693, 1179, 6946, 7191, 99, 3519, 5912, 1881, 9471, 9115, 3307, 856, 4941, 7448, 4213,
    9503, 4854, 4082, 2700, 3035, 4378, 2254, 8846, 5596, 1933, 1120, 783, 8442, 8700, 6808, 3568,
    2430, 789, 2956, 6189, 3361, 5403, 104, 2031, 652, 1146, 9133, 439, 8717, 4161, 4717, 1492,
    5165, 189, 7002, 2835, 3738, 6418, 9250, 4767, 9629, 9939, 7274, 9280, 2683, 8564, 9494, 2799,
    2237, 773, 2481, 8338, 7944, 2786, 3901, 6914, 121, 9521, 6546, 599, 5806, 9951, 1344, 6696,
    710, 1779, 2114, 3293, 5421, 5467, 2912, 2040, 4150, 3595, 6355, 5214, 1730, 7970, 205, 4183,
    2268, 5347, 2433, 5122, 4159, 3874, 2614, 1367, 5518, 2462, 4650, 4044, 5354, 1057, 1384, 93,
    2448, 4513, 7887, 5087, 1994, 6093, 9885, 5771, 5991, 9940, 3818, 8373, 2818, 1323, 4399, 4102,
    233, 8673, 3026, 9990, 913, 536, 5580, 8016, 7296, 3978, 3298, 9603, 6921, 6013, 8953, 4927,
    4758, 6530, 2920, 100, 8150, 7077, 9977, 6369, 1884, 4757, 8952, 4572, 9619, 7204, 2666, 4765,
    3895, 8771, 7377, 9325, 2692, 202, 70, 1441, 235, 4405, 6811, 3930, 4662, 836, 9976, 4758,
    9015, 4521, 1887, 9812, 2276, 8747, 6443, 8737, 7148, 8182, 9106, 4737, 1730, 7680, 7644, 5113,
    733, 2940, 5897, 9698, 1325, 1403, 5182, 2239, 9962, 940, 7821, 5416, 5666, 7917, 9570, 1491,
    5610, 182, 9800, 6133, 3508, 1387, 9193, 2242, 8290, 2036, 4270, 6812, 8452, 5083, 4770, 528,
    7092, 2808, 9793, 1218, 2398, 1626, 3195, 5107, 5370, 7088, 6236, 6047, 3428, 586, 2823, 3946,
    3170, 535, 82, 3566, 3977, 5790, 2927, 6511, 7159, 3902, 7013, 2490, 4436, 9325, 2718, 2686,
    3189, 2624, 1378, 8504, 707, 2365, 6415, 6610, 9212, 1749, 3732, 95, 2172, 6689, 3492, 6673,
    2126, 6129, 1532, 6590, 5966, 4510, 8144, 2552, 6407, 550, 1166, 9016, 6906, 1693, 3668, 9028,
    2162, 1818, 7552, 7522, 8235, 7102, 251, 2537, 8856, 7076, 8539, 1352, 9829, 8464, 3190, 2179,
    1505, 1921, 6926, 4608, 1273, 4039, 8276, 8460, 7951, 917, 7672, 4720, 5786, 1483, 4438, 9742,
    3796, 9693, 2817, 4282, 9851, 3372, 1326, 4805, 2020, 4427, 5968, 9107, 5010, 9073, 1260, 7926,
    8768, 7903, 9828, 1833, 8543, 2883, 6991, 2385, 3981, 9247, 4443, 2725, 288, 816, 6318, 1253,
    4602, 1470, 7914, 5574, 4867, 6012, 2457, 4973, 2835, 7487, 2240, 5115, 9130, 2376, 9702, 903,
    3950, 9594, 3697, 1197, 7991, 8291, 7019, 4287, 3008, 7599, 3608, 7202, 8636, 6696, 6288, 575,
    3167, 6191, 7805, 6054, 6198, 5304, 4942, 9600, 6665, 9168, 5114, 6989, 9159, 3555, 2159, 1402,
    3368, 2493, 7963, 7036, 2732, 3953, 5275, 3264, 2230, 2288, 8245, 2087, 8903, 9757, 8669, 8068,
    4298, 2846, 6867, 5061, 6640, 7425, 4146, 4834, 7730, 3879, 169, 8947, 2387, 6448, 727, 2631,
    7035, 6960, 4485, 2261, 249, 7107, 3835, 2254, 4892, 9800, 531, 5915, 3904, 877, 4294, 506,
    4937, 700, 3886, 4739, 3350, 9150, 7891, 7513, 4918, 4408, 6622, 5285, 416, 7656, 5569, 1921,
    6384, 8575, 2421, 308, 5950, 9857, 2011, 7124, 5856, 3102, 5506, 2401, 7045, 4530, 2857, 161,
    666, 4770, 3010, 7476, 1739, 9709, 2553, 9099, 6934, 1672, 1545, 4976, 8915, 7556, 8426, 93,
    2732, 2675, 8086, 6869, 2214, 4094, 7929, 2704, 5816, 2294, 3191, 5368, 2713, 1061, 7971, 3115,
    3207, 5042, 2347, 5275, 3219, 5603, 1904, 5655, 6783, 8323, 9837, 2752, 7544, 2307, 3168, 3082,
    9629, 2780, 7755, 944, 2919, 5389, 9801, 31, 4131, 4359, 9252, 9875, 612, 2567, 8276, 9852,
    1016, 9364, 2957, 172, 9968, 6339, 9809, 5905, 6096, 4884, 332, 2750, 9418, 9853, 1712, 3556,
    4113, 3401, 9689, 2693, 6804, 8638, 5194, 9485, 521, 9874, 4841, 9490, 8481, 8508, 5672, 1453,
    2330, 2528, 9139, 5249, 54, 957, 6731, 4634, 7217, 8522, 7905, 6166, 1560, 766, 2064, 7528,
    2336, 9376, 5509, 4040, 6995, 38, 9033, 8711, 4514, 4714, 634, 2115, 8167, 5949, 8640, 3823,
    7663, 5767, 8687, 9810, 9242, 7639, 8566, 7110, 8205, 6383, 5843, 640, 5637, 3591, 9624, 202,
    6155, 7207, 1237, 4916, 2763, 228, 6419, 5524, 4091, 8852, 5601, 4600, 2384, 997, 386, 284,
    5867, 6505, 3597, 501, 8434, 56, 9641, 1090, 5005, 2701, 8544, 9360, 9914, 9992, 70, 3175,
    3360, 5777, 4879, 6348, 8701, 5892, 7814, 8526, 3321, 9071, 1313, 4456, 1910, 2975, 3151, 1266,
    7459, 7366, 3264, 7648, 8860, 4175, 3913, 1206, 9574, 800, 4545, 5152, 3165, 4258, 3544, 7628,
    1125, 6315, 9255, 610, 4242, 3112, 9198, 9630, 4111, 1587, 9083, 9026, 2534, 4474, 4322, 7603,
    9858, 6517, 1136, 5143, 5864, 9459, 4252, 7571, 6796, 8137, 2861, 4229, 1505, 9606, 7886, 2266,
    6131, 7287, 7335, 7157, 3363, 8390, 8101, 9162, 9333, 3261, 8389, 9603, 2547, 3937, 9998, 794,
    5486, 6640, 406, 4964, 808, 820, 5461, 6812, 6434, 3924, 7436, 1266, 1558, 7740, 5367, 533,
    3755, 5241, 8478, 9101, 294, 2579, 762, 4345, 5089, 6613, 9733, 9119, 6173, 8742, 6195, 2253,
    3209, 3379, 1178, 2838, 4813, 3466, 7640, 5944, 2667, 3368, 2387, 1752, 8340, 2745, 1983, 5702,
    557, 7946, 8929, 5978, 4734, 4333, 4766, 7720, 3671, 9035, 69, 4747, 7486, 6897, 4017, 8595,
    1890, 6196, 7255, 2153, 8394, 8043, 8251, 7952, 9265, 9094, 814, 6287, 8567, 5387, 3910, 6704,
    37, 4817, 802, 6173, 1463, 5063, 6934, 3584, 2397, 890, 3755, 2192, 3909, 3215, 9204, 5969,
    7119, 5912, 6857, 7343, 6059, 9876, 4812, 7848, 7554, 4903, 888, 5595, 1073, 8892, 2750, 8190,
    1589, 3544, 2890, 8521, 5695, 8898, 1502, 9040, 8889, 4040, 6439, 1288, 5433, 7247, 7378, 9815,
    8925, 9484, 4149, 6381, 7247, 538, 5553, 4789, 1416, 6866, 5995, 6231, 3281, 8883, 4259, 505,
    8573, 9733, 9171, 9905, 4461, 9730, 9096, 9638, 7334, 583, 7660, 2989, 4837, 2758, 3100, 592,
    5758, 8709, 8564, 286, 3627, 8972, 8920, 7122, 1423, 682, 6862, 6402, 5048, 7095, 4537, 222,
    2471, 1158, 7221, 3856, 3626, 9129, 9002, 6208, 2921, 3478, 7519, 7569, 1057, 8074, 2728, 1000,
    8712, 1843, 8639, 256, 171, 1192, 2409, 7083, 8290, 5318, 8332, 3939, 9759, 9081, 2296, 9790,
    2231, 9823, 1513, 4741, 8422, 5034, 8748, 5473, 9840, 8367, 8600, 5179, 7644, 2219, 8610, 9762,
    1088, 227, 7916, 5348, 5747, 9937, 7189, 8890, 3343, 4362, 5071, 1223, 817, 1702, 9506, 6975,
    9085, 654, 7422, 999, 2092, 851, 8041, 8343, 8009, 570, 2983, 7307, 4150, 6244, 4392, 4680,
    6838, 210, 2524, 6570, 3320, 3776, 6834, 1313, 2335, 3195, 9583, 2886, 4346, 373, 2422, 3094,
    1475, 8507, 3819, 4814, 5255, 8061, 5796, 675, 1289, 9763, 1674, 9317, 3579, 8912, 3136, 5262,
    6376, 8975, 1679, 3596, 829, 3728, 907, 2585, 8831, 7889, 7735, 7479, 7073, 6103, 7675, 9241,
    5514, 3803, 9732, 8675, 6107, 3562, 11, 3611, 3947, 9770, 2195, 8893, 9833, 9447, 7964, 5683,
    6608, 8630, 4503, 9466, 645, 6472, 5110, 6799, 3166, 5919, 9989, 395, 1266, 9302, 8705, 9501,
    8546, 9110, 6335, 5360, 5722, 4424, 1734, 3678, 9521, 2599, 3683, 3040, 6458, 8933, 7783, 7306,
    8517, 2799, 9774, 2330, 430, 8612, 6903, 2191, 553, 3023, 175, 1827, 7207, 5526, 802, 7714,
    9405, 2274, 9773, 8933, 7357, 1640, 8428, 6916, 6877, 1439, 8576, 5866, 1497, 7269, 9530, 5365,
    4270, 5521, 6588, 3822, 4571, 9574, 24, 7527, 6200, 9658, 1469, 7240, 9117, 390, 8764, 9440,
    4338, 7085, 6206, 2437, 3379, 9509, 1008, 3570, 6848, 8205, 4309, 5549, 8093, 7606, 5612, 5226,
    5674, 6048, 8904, 5341, 3313, 4981, 755, 2511, 26, 8757, 745, 2318, 3919, 858, 2506, 8456,
    2602, 6894, 6175, 2269, 4796, 6472, 1269, 8496, 7451, 5822, 6879, 5346, 6208, 5364, 9757, 9077,
    8062, 9188, 1016, 1229, 5318, 6122, 4646, 3110, 7236, 2897, 2564, 5181, 7640, 9124, 1874, 6180,
    669, 9522, 4703, 9265, 4484, 4125, 224, 5933, 4115, 125, 9704, 8126, 3989, 4415, 1605, 6838,
    2312, 9874, 7655, 1088, 3059, 8585, 4030, 461, 6574, 3617, 7201, 1563, 4363, 2352, 754, 5112,
    2395, 8728, 1443, 544, 7364, 8573, 560, 8296, 2784, 862, 7803, 9941, 9031, 4646, 9889, 5966,
    5230, 3923, 8202, 5914, 4304, 3018, 8409, 3381, 9098, 1986, 5786, 813, 8825, 369, 1097, 5019,
    5477, 8174, 136, 5203, 5970, 2001, 8174, 9344, 2050, 9301, 777, 5518, 7848, 5475, 4338, 8010,
    9009, 5052, 9517, 4066, 641, 1265, 7157, 7127, 8475, 9932, 5779, 2461, 2630, 8699, 4904, 1958,
    3930, 9241, 8858, 4771, 8288, 9443, 8181, 3777, 4420, 8462, 2056, 279, 4232, 4088, 5126, 9997,
    4926, 663, 2307, 1874, 903, 343, 1640, 2738, 1438, 5811, 2976, 5673, 2708, 2745, 9346, 1981,
    751, 346, 411, 8238, 9066, 4951, 1846, 8607, 7059, 9001, 550, 3752, 2440, 8507, 1293, 2847,
    1909, 6615, 8254, 5325, 9192, 4666, 991, 6853, 8850, 5829, 8939, 5273, 3968, 9742, 9221, 8605,
    708, 5794, 3897, 7056, 2914, 9185, 7009, 3711, 8997, 2058, 9947, 1529, 2659, 8125, 8042, 3768,
    862, 9271, 7564, 4271, 8897, 5373, 5346, 975, 9278, 537, 5969, 8161, 306, 3322, 5467, 5052,
    3247, 9496, 8352, 4713, 8848, 2905, 1523, 1469, 3619, 9366, 8534, 8993, 1261, 5978, 8102, 8745,
    2021, 5044, 6098, 2308, 8417, 3389, 1208, 2191, 5917, 4635, 535, 4208, 3907, 2449, 2412, 9329,
    8532, 8359, 9492, 3300, 3892, 5062, 3146, 1266, 3814, 9372, 9278, 2566, 6699, 3471, 4585, 3821,
    3743, 4828, 2839, 9027, 4401, 9655, 9853, 2497, 2369, 1228, 4808, 8072, 8492, 2835, 9911, 1659,
    1511, 7128, 3012, 3449, 82, 9919, 8377, 43, 8239, 4042, 5871, 3665, 6359, 8501, 3177, 391,
    5727, 1819, 3096, 2717, 2762, 4568, 9144, 7478, 9672, 7112, 131, 4133, 3042, 1115, 2852, 8397,
    6830, 718, 2779, 8576, 3845, 1883, 4568, 5294, 2052, 2005, 8124, 1969, 8822, 3660, 5228, 4777,
    4717, 4027, 2060, 1753, 3886, 3596, 7426, 7177, 2780, 6336, 6583, 1903, 4233, 556, 6097, 3066,
    7468, 8700, 4520, 9407, 2301, 945, 5423, 5589, 6251, 1288, 1542, 33, 1420, 2656, 6908, 6693,
    5515, 8291, 7934, 659, 2418, 1997, 420, 3450, 896, 3363, 7719, 5650, 9391, 7022, 2083, 9816,
    862, 654, 6565, 9768, 8204, 2401, 9880, 7486, 8858, 1029, 2437, 2870, 8246, 1550, 4858, 7980,
    4728, 5499, 889, 8126, 2871, 4873, 8896, 4396, 8678, 5558, 1828, 6311, 7210, 807, 5456, 4407,
    9299, 2259, 6493, 6324, 8283, 6606, 336, 5537, 3680, 8973, 8946, 4701, 9177, 4754, 2782, 1353,
    3045, 7232, 3230, 6780, 9052, 3002, 2411, 2681, 5398, 2893, 9610, 2830, 7106, 1304, 6950, 1666,
    2399, 1401, 4913, 1950, 9112, 9505, 7120, 6899, 8775, 9794, 7683, 6768, 2394, 2235, 6041, 823,
    1530, 3752, 2921, 3906, 7166, 9963, 3155, 6874, 8828, 5428, 5572, 1856, 7725, 1358, 6787, 9419,
    4267, 6251, 6323, 3056, 9221, 2493, 8226, 3599, 9598, 8896, 4021, 6124, 4326, 412, 9599, 3167,
    3222, 4568, 2361, 7927, 61, 5623, 5163, 7965, 1396, 1370, 8775, 7186, 1188, 5156, 5309, 220,
    9436, 82, 5219, 6795, 9801, 2201, 4437, 1212, 2673, 5308, 692, 5029, 3955, 556, 4486, 4549,
    1, 105, 155, 9936, 2376, 8810, 2511, 1404, 8142, 1446, 2972, 8523, 1506, 808, 7117, 8868,
    931, 8669, 8442, 8210, 5988, 9111, 4411, 5662, 7810, 1165, 7322, 3943, 86, 9429, 5652, 4918,
    2075, 4596, 8882, 9363, 8321, 9608, 5081, 3230, 7572, 5710, 7219, 7714, 8018, 5476, 4845, 1496,
    5619, 1585, 2820, 7401, 3331, 4054, 5059, 8498, 4455, 8276, 954, 9197, 1254, 9319, 8065, 7706,
    5847, 4902, 2675, 6509, 1946, 2119, 8775, 4534, 8718, 8115, 4971, 1691, 5618, 2129, 8417, 6264,
    5110, 4778, 75, 3632, 4574, 1514, 4852, 3105, 3540, 8345, 1743, 7945, 9519, 7763, 5345, 4002,
    9374, 7788, 5897, 3579, 2558, 7015, 3427, 8396, 913, 7963, 4573, 6649, 639, 8191, 3301, 9992,
    4152, 8349, 9473, 1451, 4940, 6260, 3696, 7559, 387, 4312, 2555, 1879, 3487, 1339, 5790, 5842,
    4421, 7778, 7719, 1274, 6830, 8442, 295, 8954, 4274, 7887, 472, 1080, 5750, 2209, 5533, 4256,
    6298, 7054, 4087, 5947, 9797, 5000, 8507, 5223, 26, 8425, 6031, 6386, 4981, 181, 9212, 4149,
    8368, 3992, 2350, 2958, 6332, 652, 817, 6179, 3903, 9805, 2332, 9457, 6572, 4322, 6165, 2774,
    8141, 5486, 9947, 4204, 93, 2503, 8582, 8503, 1933, 6883, 4023, 1023, 6154, 8418, 2481, 1337,
    7807, 835, 405, 3605, 3659, 5053, 618, 5974, 4987, 7929, 7780, 2083, 8626, 1450, 1462, 8318,
    3390, 652, 2726, 9149, 6815, 687, 9793, 4069, 492, 973, 542, 8157, 7716, 9192, 144, 3381,
    7194, 2157, 50, 6127, 7395, 1382, 1434, 4381, 2598, 1117, 8148, 4056, 4852, 5880, 801, 1960,
    1183, 7524, 6822, 9049, 4725, 1901, 4954, 4704, 5342, 8782, 1560, 4064, 1491, 3811, 7812, 781,
    2686, 4493, 8261, 9262, 5646, 7572, 1208, 7971, 5792, 9263, 332, 6184, 5802, 7398, 5240, 3800,
    1604, 5286, 7841, 4832, 6098, 5154, 621, 3599, 852, 554, 229, 447, 2236, 5288, 4411, 5909,
    4750, 2398, 503, 1464, 8155, 6145, 3177, 615, 554, 9623, 5610, 1077, 1985, 1726, 7811, 4616,
    1504, 3963, 8529, 2765, 2593, 5394, 9955, 2315, 6155, 8776, 4512, 1358, 4026, 8178, 3331, 2884,
    7118, 521, 9432, 9465, 5736, 5280, 9218, 9212, 6446, 7798, 3165, 6863, 5617, 9710, 4188, 1811,
    6710, 3707, 6850, 8381, 488, 7579, 5658, 51, 5184, 2885, 8509, 9702, 7536, 6, 2880, 3086,
    8337, 7275, 8460, 1489, 8495, 6841, 8218, 8632, 4125, 9652, 7998, 9048, 6114, 7201, 4103, 1157,
    9443, 490, 8295, 8395, 3438, 4509, 2871, 2227, 7880, 4120, 5759, 5194, 659, 1644, 3115, 7768,
    1193, 7165, 7504, 7723, 2764, 8465, 410, 4086, 3219, 5566, 4642, 9480, 3233, 4585, 5292, 3426,
    3077, 2147, 6699, 5438, 1361, 9305, 1948, 3840, 3539, 5168, 4153, 8182, 1922, 6622, 7984, 8123,
    2826, 4875, 3324, 2326, 2092, 5903, 4960, 1061, 9662, 141, 2512, 9174, 2559, 7865, 698, 4127,
    5205, 8957, 3562, 7328, 8029, 519, 4202, 2490, 7479, 6995, 9897, 7856, 161, 5246, 294, 1589,
    5194, 6742, 5296, 7779, 9837, 4383, 9097, 53, 3130, 4117, 8804, 8517, 4219, 8354, 4331, 7491,
    8808, 5325, 1523, 8858, 3388, 9394, 5585, 2990, 4466, 9158, 4797, 9305, 2998, 4845, 8001, 8982,
    1448, 4751, 1956, 2656, 1265, 4169, 1722, 4519, 19, 6692, 9328, 6883, 5079, 1576, 8166, 1386,
    5450, 4800, 8444, 6286, 3037, 3426, 1274, 9685, 7219, 4407, 5706, 8063, 8579, 2642, 5175, 8031,
    1513, 9605, 2877, 9601, 6786, 520, 9365, 3307, 6634, 6610, 3754, 8597, 2961, 8158, 8304, 518,
    4772, 5764, 216, 3160, 2928, 7038, 4123, 1113, 472, 3426, 691, 5187, 809, 6363, 1700, 6403,
    1620, 5003, 5905, 1728, 1419, 2496, 7274, 4389, 1958, 8103, 5632, 8026, 3721, 988, 4935, 9384,
    9380, 1424, 3970, 6196, 6611, 4729, 838, 5714, 2058, 643, 3657, 6613, 8171, 1428, 4826, 3536,
    9178, 6841, 4990, 4061, 826, 1919, 3016, 9710, 6345, 9005, 8365, 9930, 8868, 9307, 3208, 4735,
    6409, 2084, 8867, 6825, 9495, 1948, 2602, 8288, 9703, 3765, 2307, 2708, 2099, 1341, 8189, 8042,
    3430, 9673, 9259, 9871, 8229, 2123, 8429, 1474, 1625, 802, 5004, 5412, 9062, 6653, 2233, 5500,
    5593, 6688, 5292, 5486, 2477, 2650, 7936, 6400, 4778, 6805, 3688, 8788, 1770, 2641, 330, 5732,
    1739, 4407, 5786, 8262, 9161, 8168, 5541, 9936, 4786, 9737, 1603, 8926, 7597, 1905, 9016, 600,
    973, 2520, 3041, 5633, 5284, 3520, 201, 8562, 2886, 7031, 6147, 5196, 4221, 7374, 7683, 3051,
    9620, 7213, 9904, 5350, 9357, 7967, 7845, 3957, 7078, 3635, 1512, 1482, 9238, 5703, 4876, 7393,
    1803, 4436, 5188, 1422, 7275, 6078, 3800, 8940, 9621, 1887, 96, 7428, 9790, 1769, 7922, 9617,
    9293, 9208, 9870, 2768, 962, 8529, 7019, 2903, 6160, 3627, 359, 2939, 8183, 2598, 3760, 6323,
    2623, 3270, 6178, 304, 1900, 4540, 2278, 4452, 2538, 6047, 9555, 5128, 7347, 2817, 1800, 7516,
    9388, 9826, 4376, 8182, 15, 73, 2477, 9875, 4185, 9814, 3506, 3953, 3785, 7485, 3465, 7823,
    3610, 1701, 5129, 8368, 859, 5103, 3502, 5691, 8568, 8700, 8987, 8867, 4604, 3194, 9178, 7878,
    5801, 4833, 2497, 5026, 2183, 5643, 9499, 912, 5517, 3570, 5929, 8555, 941, 439, 2932, 6765,
    9297, 6911, 6126, 7459, 3668, 6609, 232, 9162, 8884, 7962, 444, 3527, 1157, 7100, 745, 1331,
    7763, 1466, 7302, 1848, 1169, 5404, 5066, 2536, 5336, 8225, 7334, 6723, 8336, 3993, 2051, 3596,
    8716, 4687, 4376, 4191, 6048, 6960, 8129, 4872, 1738, 7377, 9077, 4805, 7986, 2845, 1002, 9690,
    7753, 2117, 8547, 5763, 4705, 245, 265, 9690, 3941, 5280, 4131, 1519, 6320, 2387, 1959, 1952,
    6374, 2586, 1476, 6890, 4865, 8853, 1128, 6870, 9058, 1503, 831, 560, 2676, 3362, 3846, 4414,
    8683, 3262, 8954, 6791, 1576, 94, 2427, 2434, 6608, 8310, 7052, 6078, 5960, 6311, 8902, 4270,
    1351, 3932, 2389, 6132, 2305, 6792, 5537, 8655, 5975, 7549, 7680, 6550, 4563, 113, 7692, 1496,
    3249, 5574, 1039, 8340, 7512, 6851, 8735, 6324, 4602, 1845, 7561, 1029, 3174, 2760, 8959, 4628,
    242, 8044, 2605, 9789, 5688, 3739, 4217, 6124, 7813, 9174, 1755, 5195, 8918, 8615, 6280, 2682,
    6600, 2188, 5209, 2451, 6173, 6637, 4683, 6188, 6111, 7839, 3184, 5926, 554, 8887, 7540, 1145,
    3236, 9526, 5675, 1299, 5028, 303, 5166, 3484, 9280, 5745, 8697, 8690, 7513, 680, 9241, 7018,
    5756, 9556, 2423, 9327, 2841, 699, 7569, 9046, 7492, 3878, 1404, 9177, 7185, 2018, 3382, 2611,
    6359, 9349, 3195, 1415, 1382, 5614, 7422, 9759, 6856, 9295, 1099, 5289, 5766, 9023, 1569, 5904,
    4488, 8892, 6298, 1231, 6772, 2516, 8724, 9278, 3159, 7453, 1972, 4280, 7346, 6178, 1591, 5181,
    578, 888, 6812, 6325, 7148, 9299, 7229, 5466, 4428, 6831, 281, 8831, 5980, 5389, 3452, 2781,
    737, 3274, 9871, 2579, 2241, 7305, 2180, 763, 4632, 4842, 6347, 563, 3510, 7761, 587, 3723,
    5427, 3383, 9594, 6682, 6939, 7812, 443, 1741, 992, 4017, 1630, 3178, 566, 9755, 9958, 7533,
    7951, 4452, 3227, 1405, 8702, 7172, 6124, 799, 4480, 4471, 5697, 836, 4526, 648, 9995, 3979,
    6803, 3430, 1238, 7550, 9356, 6485, 9947, 5707, 2622, 7048, 7655, 413, 5034, 8661, 1862, 1185,
    8605, 1204, 4308, 9577, 7232, 3478, 2440, 2803, 2349, 7321, 7485, 3163, 9959, 8901, 8873, 6861,
    387, 3587, 1120, 8194, 1305, 6314, 184, 6133, 3093, 7555, 7255, 3557, 649, 8185, 8726, 5623,
    9457, 3459, 2319, 1775, 2348, 6880, 7119, 756, 5387, 8674, 6082, 3061, 7899, 7079, 3226, 7975,
    6607, 4960, 3910, 3539, 5478, 3619, 9876, 3706, 3218, 2207, 3645, 1710, 9872, 6620, 5466, 689,
    5902, 651, 7176, 9225, 6773, 3805, 1109, 918, 3893, 2087, 5090, 4944, 4451, 5278, 3421, 9208,
    3208, 7379, 8586, 4211, 6293, 3755, 2807, 2578, 4555, 4881, 6865, 7128, 9660, 8853, 5921, 4867,
    9512, 8690, 7619, 9647, 7763, 3923, 7025, 5837, 7552, 6812, 9353, 7947, 7717, 7218, 6941, 666,
    5895, 9198, 1014, 5674, 6659, 5660, 768, 5468, 3847, 1456, 3222, 8455, 5718, 8652, 1659, 238,
    7567, 4243, 2590, 9990, 8298, 4058, 4902, 7240, 6933, 5542, 8344, 6263, 4012, 2586, 1208, 1468,
    3623, 3598, 8497, 9138, 3829, 4701, 2962, 9625, 6198, 5763, 9759, 1010, 778, 3526, 6425, 7446,
    9082, 9428, 6196, 7136, 7149, 1518, 1698, 9972, 391, 800, 5931, 8299, 9033, 487, 5983, 5548,
    8846, 4055, 7021, 8526, 8974, 5404, 1041, 7198, 8549, 5369, 1139, 9643, 813, 774, 7550, 1518,
    9111, 825, 6463, 5371, 795, 6043, 5918, 812, 1734, 6572, 6795, 5858, 1304, 3920, 1801, 9884,
    3859, 4988, 8839, 4219, 7738, 3913, 991, 7857, 524, 2842, 3535, 9490, 5906, 4316, 2914, 1206,
    6331, 8809, 3862, 7145, 2697, 7110, 7914, 4644, 9341, 4988, 3677, 2892, 3813, 5717, 19, 4825,
    957, 7822, 5714, 626, 9067, 8108, 1575, 545, 3478, 9668, 8004, 3635, 3473, 1399, 4642, 1660,
    8264, 8072, 6421, 8382, 1883, 1670, 5796, 2047, 9179, 4289, 2281, 5512, 9551, 6119, 6651, 5569,
    6040, 7889, 2039, 6937, 9205, 5773, 6374, 3183, 8358, 9908, 3782, 7622, 6136, 873, 9450, 1006,
    3073, 7899, 216, 1149, 5767, 7205, 5219, 8303, 5483, 288, 9115, 2767, 2469, 3347, 1795, 9343,
    2963, 7342, 3314, 3441, 8356, 3416, 4831, 1685, 9187, 7689, 9241, 1936, 8164, 7797, 4022, 6980,
    392, 2655, 5142, 2326, 3172, 3927, 7895, 3387, 5784, 4981, 7438, 2509, 4038, 5701, 2166, 7318,
    8343, 7069, 3856, 3793, 9378, 1199, 2275, 8017, 850, 9800, 6683, 213, 3625, 235, 6634, 3884,
    3122, 1145, 282, 9972, 5790, 3867, 1455, 5708, 8665, 6936, 4378, 5228, 2879, 5154, 9487, 265,
    8690, 8299, 2491, 1740, 9358, 9936, 0, 5687, 2240, 1261, 6873, 8709, 1385, 9797, 4316, 9999,
    4642, 3679, 4149, 7889, 3901, 7481, 648, 469, 3740, 733, 6302, 3581, 3151, 6921, 8358, 631,
    9912, 4992, 3108, 6344, 7146, 5413, 3623, 2131, 6634, 2788, 8919, 6953, 5353, 3546, 7694, 2292,
    6313, 5539, 7462, 1095, 7951, 4316, 3784, 4986, 5086, 5932, 6993, 6807, 758, 7283, 4774, 2870,
    2109, 6432, 3246, 9590, 3189, 9229, 2859, 2725, 8113, 192, 8795, 3928, 2106, 1395, 4005, 3302,
    3214, 3350, 2277, 8130, 1616, 5069, 2951, 2355, 3606, 186, 3619, 4649, 6109, 1601, 162, 9285,
    1431, 4597, 2345, 5821, 9643, 6017, 2276, 4093, 7202, 1571, 4197, 3451, 5957, 6685, 4029, 7059,
    1864, 6120, 6845, 1501, 7666, 403, 1335, 139, 2927, 3402, 3941, 6038, 6486, 875, 865, 3663,
    7773, 1504, 1103, 6442, 3901, 8735, 371, 8408, 8206, 7942, 8443, 810, 2934, 1824, 2003, 893,
    5266, 597, 544, 1722, 3450, 6109, 2476, 125, 5924, 8262, 2542, 2364, 9663, 1812, 8799, 86,
    1463, 7004, 5729, 9546, 2930, 1328, 2704, 4005, 6584, 8128, 9913, 9161, 5043, 1596, 2899, 9198,
    6695, 9703, 8043, 3162, 2068, 4390, 2657, 6220, 2703, 5710, 2202, 9892, 2172, 219, 2172, 9552,
    8973, 470, 9675, 3393, 2483, 1175, 8325, 4996, 6497, 6717, 9255, 8646, 9148, 9445, 1738, 2441,
    2668, 5480, 73, 6657, 3139, 5255, 9952, 5047, 3356, 4843, 7869, 616, 2452, 3599, 6723, 8494,
    7161, 782, 3163, 6066, 973, 5960, 2387, 2514, 587, 5432, 7525, 7428, 3240, 4232, 5871, 3758,
    6101, 5425, 912, 4447, 2285, 1253, 8746, 7339, 360, 7175, 9132, 9123, 2697, 6158, 5814, 3442,
    5788, 2415, 1514, 1741, 2629, 739, 5547, 699, 1639, 925, 6484, 3983, 2953, 6968, 327, 896,
    7970, 2268, 2005, 8463, 748, 6785, 6962, 5190, 5716, 6980, 1151, 1727, 7242, 1006, 9832, 219,
    6957, 5845, 7802, 6311, 4727, 9648, 7689, 9902, 3571, 3654, 9690, 3812, 4176, 9775, 5134, 9653,
    2773, 8776, 5473, 9459, 4731, 2180, 7394, 9202, 8917, 2804, 4522, 1257, 3912, 4323, 500, 7452,
    2899, 4830, 835, 2665, 5866, 8306, 5609, 7812, 6362, 7899, 4609, 1812, 451, 924, 6950, 5701,
    1873, 6317, 7196, 5093, 5845, 8250, 1450, 7214, 7957, 7510, 1350, 9189, 3687, 8440, 7193, 6919,
    2205, 7860, 9509, 3716, 4527, 8155, 6131, 7694, 9007, 1804, 7319, 9203, 7292, 119, 9487, 9672,
    3149, 7809, 9350, 2529, 3914, 6078, 4762, 8736, 2717, 6927, 6713, 5638, 1412, 6638, 7449, 5021,
    73, 220, 838, 3096, 6789, 5808, 703, 746, 5261, 9213, 258, 3110, 4546, 8455, 2874, 7085,
    9262, 2900, 5542, 751, 3454, 4384, 1907, 3445, 4190, 3205, 3253, 6022, 7024, 5094, 2490, 6395,
    342, 5506, 9806, 502, 3712, 4298, 7611, 6241, 2954, 68, 8255, 18, 6807, 9831, 7587, 904,
    342, 4861, 3734, 4716, 7376, 577, 4226, 8075, 2240, 4449, 7526, 8864, 2601, 6922, 3148, 968,
    7442, 1726, 3711, 9917, 3863, 4641, 2462, 1514, 6949, 9772, 5152, 9933, 6087, 6136, 9250, 6627,
    3406, 3484, 162, 7619, 6099, 6069, 9428, 423, 6602, 7339, 1422, 85, 8291, 4875, 989, 1484,
    9903, 2005, 8659, 1865, 5782, 6325, 3492, 8599, 4032, 118, 9353, 8884, 1152, 3486, 2180, 8367,
    6590, 4982, 7433, 5940, 2378, 1465, 7472, 3669, 1583, 7910, 2599, 6632, 1776, 4941, 4878, 9872,
    442, 4101, 792, 6585, 7, 2993, 2061, 83, 321, 6063, 3013, 1425, 2702, 2973, 3127, 4542,
    5667, 4557, 789, 5834, 3042, 2393, 4564, 5037, 4756, 9313, 6763, 8550, 2659, 4783, 8479, 9083,
    2764, 9797, 9591, 8131, 7258, 764, 9353, 45, 8810, 9130, 2269, 3091, 5573, 3630, 2181, 8859,
    7574, 7032, 9211, 345, 6124, 8647, 354, 4911, 5626, 2949, 7206, 6177, 2398, 9616, 9424, 106,
    9124, 3661, 9197, 9960, 8414, 8848, 6909, 231, 2365, 4598, 5903, 716, 7558, 4403, 1663, 3850,
    3531, 4620, 9010, 6397, 4506, 6515, 2840, 7356, 1071, 4123, 3437, 7608, 9852, 9687, 2572, 315,
    5400, 2857, 3562, 2303, 8517, 1402, 476, 6851, 6481, 1968, 9394, 946, 1775, 3846, 3673, 4183,
    2280, 1723, 2070, 3184, 6013, 4981, 9999, 603, 6211, 4924, 3851, 1360, 819, 9393, 1061, 5226,
    8872, 7567, 7092, 2737, 6512, 5051, 4413, 3202, 7389, 1179, 1837, 9439, 7859, 8933, 3187, 3956,
    1208, 7795, 2528, 6655, 8424, 2073, 688, 7881, 495, 2883, 8421, 8237, 6496, 7566, 1699, 7193,
    3914, 6489, 1056, 8500, 8171, 1009, 6326, 1198, 9530, 4988, 4996, 6075, 1925, 2764, 5523, 9296,
    1466, 5885, 4971, 6017, 730, 1722, 6689, 7162, 3217, 7126, 9780, 218, 3522, 1590, 2955, 5688,
    8741, 384, 3281, 433, 4790, 716, 3875, 2645, 1196, 5995, 5251, 2048, 6389, 9673, 9352, 4153,
    2887, 2315, 9268, 3903, 64, 1299, 298, 8492, 3693, 2584, 8624, 7084, 5495, 6104, 4982, 6440,
    421, 1518, 6804, 2931, 1199, 7691, 3894, 1428, 5275, 2249, 1360, 4062, 7948, 7351, 7143, 8118,
    4169, 7297, 474, 7929, 6504, 6623, 2183, 7551, 3767, 5090, 5157, 7302, 9804, 8506, 2869, 17,
    2818, 8211, 6450, 2030, 4212, 7516, 6885, 6142, 8157, 5186, 4327, 4862, 7002, 763, 1850, 6192,
    1541, 896, 6083, 7919, 6271, 9228, 7351, 1895, 6568, 3416, 2232, 448, 8148, 2592, 8665, 4609,
    2534, 9053, 1953, 3512, 6383, 3290, 8733, 7675, 8370, 9253, 7327, 82, 8178, 5600, 2929, 6252,
    3529, 8048, 787, 6501, 9001, 2615, 2896, 1680, 1015, 9641, 1486, 6392, 3986, 7015, 6901, 13,
    6306, 1982, 544, 9317, 5122, 9016, 8494, 6930, 6245, 6572, 8899, 3199, 9391, 2885, 4023, 9752,
    4582, 4827, 331, 4994, 8031, 4238, 2852, 4644, 6525, 3333, 9209, 722, 1701, 4676, 810, 8185,
    7573, 7878, 590, 7301, 2996, 8328, 5365, 2980, 8284, 6331, 6901, 8028, 5167, 9966, 563, 6466,
    4139, 4583, 5870, 7068, 7985, 9222, 1635, 4211, 7169, 7709, 7856, 6097, 8714, 252, 196, 8970,
    8230, 3147, 9660, 4250, 8233, 1264, 4763, 5013, 8795, 7899, 7426, 1204, 3414, 465, 7319, 2135,
    3482, 6990, 3131, 5405, 4196, 9136, 6640, 2270, 2632, 2633, 7037, 3491, 4148, 539, 4288, 359,
    2897, 534, 7335, 8152, 5954, 3110, 2918, 2387, 9140, 114, 8564, 9309, 8415, 5679, 7979, 9449,
    3668, 9243, 9058, 8704, 4886, 8220, 1103, 5561, 6057, 9871, 3001, 6603, 3005, 5785, 4422, 3118,
    1492, 5730, 6670, 3039, 8470, 9432, 9604, 549, 5681, 7304, 3667, 6297, 515, 510, 6466, 5524,
    5822, 8668, 8678, 8470, 6225, 4962, 5659, 5705, 8030, 1536, 8044, 790, 3188, 7106, 1562, 1380,
    60, 6148, 2304, 1248, 5032, 5595, 7567, 1128, 2095, 4861, 8868, 5572, 9950, 6421, 7548, 626,
    2441, 9813, 7909, 7808, 9275, 5290, 3916, 4375, 380, 9163, 9504, 6828, 6838, 3953, 4607, 4202,
    343, 5343, 1700, 7847, 6521, 433, 100, 8825, 7144, 4682, 1736, 2633, 4413, 2194, 1486, 8248,
    9862, 7140, 955, 6141, 1277, 4355, 6090, 2221, 9358, 1526, 9828, 5315, 4296, 3224, 1605, 5443,
    5467, 4900, 4935, 4077, 2037, 6516, 6926, 2558, 9058, 8532, 181, 9450, 1876, 1802, 6895, 5415,
    3332, 2091, 4399, 4105, 5881, 1790, 9043, 2060, 8050, 6873, 9101, 6534, 67, 4013, 3114, 2080,
    1077, 4396, 5705, 2519, 9512, 1368, 4063, 7379, 3777, 9114, 352, 3640, 4798, 6533, 6613, 4888,
    5038, 2601, 9216, 3204, 2530, 1965, 4878, 4090, 1211, 4882, 1442, 8079, 7912, 6239, 1204, 7184,
    9733, 8239, 2940, 9269, 1086, 703, 5595, 6068, 5161, 5726, 4003, 9387, 2014, 5103, 7321, 5925,
    217, 6280, 807, 7084, 619, 6927, 3818, 2595, 7809, 580, 8832, 6286, 8940, 7460, 6861, 9252,
    7289, 3805, 8178, 8007, 8744, 5124, 5531, 5505, 9706, 2616, 785, 8616, 9030, 3830, 2885, 3870,
    3645, 4207, 1407, 6804, 4653, 1797, 3590, 8513, 4606, 6587, 539, 1900, 1288, 6603, 613, 4688,
    4546, 6112, 1680, 2510, 5045, 7425, 1462, 7748, 3306, 1144, 355, 1183, 3361, 3600, 9567, 1098,
    4876, 3068, 9343, 7348, 8163, 970, 3420, 8954, 4089, 8354, 8331, 5483, 5861, 7910, 6971, 8685,
    8048, 1746, 1853, 9910, 9364, 8945, 4954, 9904, 2551, 2683, 4032, 438, 5275, 6112, 3621, 3600,
    7052, 7446, 4364, 8747, 7705, 3715, 195, 9471, 765, 894, 8534, 3267, 17, 9249, 3048, 3256,
    2731, 1056, 9399, 8754, 5224, 1594, 8733, 3735, 7878, 2341, 2714, 1644, 4848, 5102, 8780, 4041,
    6799, 2270, 155, 9403, 3837, 4876, 1614, 4574, 2515, 6374, 9334, 6087, 4378, 1013, 7390, 8753,
    1714, 5244, 6882, 4589, 9507, 5223, 4571, 4429, 4580, 4202, 6809, 2871, 2861, 2640, 9016, 8570,
    2738, 3324, 3541, 8260, 9848, 8031, 9059, 5606, 4547, 1395, 4370, 1369, 7416, 6640, 5721, 9864,
    4990, 3545, 3909, 7327, 5966, 6342, 8519, 200, 7573, 8487, 383, 7234, 4913, 5813, 922, 7000,
    9584, 6119, 7175, 4509, 8989, 8459, 778, 5825, 8004, 5495, 2575, 8956, 6926, 3307, 2206, 8699,
    1934, 5514, 6419, 484, 6640, 164, 8629, 2367, 1716, 2128, 1230, 758, 5863, 9061, 1465, 8918,
    5318, 5462, 886, 6182, 7186, 223, 3175, 3653, 6891, 5511, 2825, 7166, 984, 3108, 5847, 3439,
    3671, 2546, 5098, 1746, 7613, 9404, 390, 468, 8075, 1299, 4177, 4700, 4308, 5327, 5203, 6183,
    614, 951, 1576, 7510, 196, 8793, 6250, 1558, 6317, 1800, 4827, 9560, 257, 3179, 6151, 4280,
    3770, 6570, 5590, 7473, 7244, 4440, 3103, 5540, 3684, 5713, 92, 1166, 9059, 6991, 9902, 251,
    1144, 4160, 2779, 3660, 6465, 7046, 8901, 5921, 7150, 8009, 5813, 2599, 5954, 3304, 3237, 7279,
    3348, 6687, 343, 1739, 6224, 2147, 4539, 9456, 457, 8941, 4040, 4752, 7877, 7866, 7443, 8154,
    5573, 2710, 2274, 2571, 7652, 3448, 9420, 7641, 5595, 2313, 5315, 953, 8052, 9563, 72, 9085,
    2364, 288, 5825, 2025, 652, 4101, 8643, 9615, 2142, 6778, 3650, 2161, 1661, 5851, 3067, 783,
    5464, 494, 1145, 8802, 5587, 2192, 4288, 7864, 60, 4443, 8538, 5153, 1487, 439, 858, 8702,
    2847, 5827, 3345, 2829, 3724, 9033, 1449, 3457, 7797, 5423, 2604, 7296, 6034, 754, 4396, 2686,
    5011, 4147, 4080, 7108, 8655, 933, 2861, 2645, 5617, 6318, 3972, 8171, 3928, 7240, 5184, 7781,
    5307, 2380, 6636, 3891, 874, 6625, 8671, 7927, 4603, 7758, 9379, 4369, 9216, 2357, 1388, 6703,
    3898, 7664, 8411, 7361, 9840, 1561, 720, 8845, 7728, 8163, 4059, 7582, 438, 8691, 2506, 4943,
    4968, 5335, 927, 9226, 5695, 8108, 2604, 3392, 1517, 2789, 7194, 6569, 9267, 8955, 838, 3116,
    873, 4728, 7630, 5928, 4542, 4804, 8364, 5, 6698, 2540, 3071, 9246, 6575, 8719, 6295, 2256,
    3644, 7804, 4771, 4284, 7690, 2230, 4259, 6402, 7149, 8281, 4295, 2978, 552, 9556, 7915, 2404,
    2369, 1234, 8503, 5935, 8140, 7553, 7710, 5334, 7115, 1365, 6654, 5831, 611, 9060, 5193, 8609,
    935, 1727, 8344, 6031, 5221, 5875, 7924, 450, 2217, 2705, 5185, 7727, 8675, 3992, 5117, 4162,
    6155, 2658, 4443, 8843, 5371, 3466, 9811, 1058, 4877, 3176, 3900, 2683, 6105, 5697, 1203, 5295,
    3716, 1952, 7264, 4232, 8485, 9062, 3852, 2337, 644, 9920, 1127, 5421, 3420, 8683, 9849, 2868,
    4705, 1856, 5483, 320, 1293, 124, 5159, 3352, 4402, 9971, 2123, 9028, 3349, 9142, 4055, 4610,
    5340, 4795, 9413, 9023, 7407, 5780, 8969, 569, 7366, 1491, 232, 972, 8176, 6410, 6387, 3411,
    3009, 1497, 2211, 2940, 1526, 7599, 5193, 5813, 1642, 5841, 3417, 926, 5059, 9974, 5287, 8867,
    4277, 1476, 6281, 8704, 298, 5600, 6164, 9429, 9489, 1372, 2541, 3414, 7301, 2819, 3454, 6700,
    7607, 6959, 3218, 6576, 6611, 8598, 5116, 2467, 1458, 1357, 5605, 3009, 308, 8124, 1520, 7958,
    3811, 2381, 7142, 9234, 5253, 3375, 9585, 611, 6183, 9715, 6881, 6113, 1646, 7256, 8608, 3348,
    5835, 743, 7620, 5909, 4783, 9025, 9346, 4978, 1506, 8091, 2275, 3907, 4937, 6312, 6750, 1216,
    4289, 6990, 5372, 9289, 3510, 7232, 5442, 3154, 9999, 8400, 1573, 7715, 8054, 4539, 6717, 5131,
    3915, 1473, 8893, 2319, 7965, 562, 9818, 2092, 3885, 7954, 2186, 6844, 494, 5279, 6880, 9012,
    9430, 1775, 3917, 9032, 8217, 1164, 6214, 456, 8856, 3444, 9682, 5011, 848, 6631, 516, 950,
    4293, 4477, 6418, 3966, 1689, 1782, 2178, 2543, 4807, 4338, 3652, 2951, 7294, 328, 1883, 6443,
    288, 1996, 3654, 6844, 1482, 4055, 7052, 8746, 3754, 9092, 4340, 9280, 3620, 9284, 5701, 5314,
    7706, 2591, 5597, 6146, 8820, 7967, 2137, 8481, 6726, 7473, 56, 6967, 3773, 3541, 9050, 5555,
    4980, 7730, 3148, 2782, 4624, 2037, 7671, 2139, 5068, 145, 9100, 3367, 3021, 3491, 7953, 422,
    4929, 6040, 3231, 8602, 5102, 2078, 400, 7251, 7534, 1210, 4145, 3572, 251, 2926, 745, 769,
    4284, 9502, 4251, 2151, 2358, 9459, 3498, 6861, 1930, 4879, 3850, 8019, 9466, 5706, 4309, 8780,
    8056, 7884, 8491, 2141, 6920, 1137, 1091, 3468, 6026, 4522, 2283, 2887, 4723, 4385, 742, 5955,
    4026, 4141, 5469, 3461, 1341, 7199, 8699, 3562, 6139, 2725, 1969, 4106, 4702, 7674, 6165, 6552,
    8171, 2524, 342, 159, 8750, 8951, 1329, 1449, 4737, 5176, 5493, 893, 5654, 2117, 5820, 2402,
    2544, 3526, 8402, 7115, 9154, 4558, 6221, 4311, 1366, 9561, 9590, 341, 18, 5198, 9964, 8445,
    5205, 6894, 8813, 5048, 5666, 2542, 9574, 5932, 9525, 2117, 8033, 2213, 4587, 6592, 85, 6393,
    4233, 6224, 1992, 5925, 372, 5605, 6543, 9482, 7966, 4967, 9359, 2369, 1638, 7544, 1583, 4671,
    2249, 3066, 9349, 4774, 5364, 2032, 9774, 1292, 2575, 5171, 4304, 2734, 9277, 9927, 3938, 7805,
    9138, 2931, 3853, 6011, 8202, 2473, 18, 9669, 2019, 1575, 2219, 5101, 8386, 7167, 6339, 1518,
    5948, 6466, 7313, 4920, 5540, 6657, 8800, 1485, 3913, 3430, 1185, 6491, 5142, 9511, 1254, 4368,
    7226, 2259, 1281, 8336, 1199, 3996, 8920, 6856, 3701, 5925, 3528, 1616, 6865, 4448, 5095, 4098,
    183, 8390, 2290, 9457, 877, 7379, 6233, 5826, 1226, 2257, 4868, 8290, 1034, 7230, 7663, 7582,
    8923, 7398, 3825, 9197, 9085, 1433, 7760, 2922, 7658, 3356, 1533, 3192, 7466, 696, 4087, 992,
    5394, 1615, 4243, 1337, 8609, 4507, 7036, 6272, 9168, 7646, 3577, 9940, 4915, 9526, 5032, 2115,
    1562, 3899, 1611, 8116, 2780, 1974, 8072, 6290, 5191, 7375, 7465, 7853, 8658, 7395, 4111, 4950,
    6881, 1812, 1859, 4303, 9610, 4059, 9786, 1358, 6600, 7791, 8162, 8779, 4670, 7984, 715, 6697,
    4125, 5284, 3921, 1574, 6376, 3080, 9570, 3275, 1845, 5545, 8434, 8186, 4468, 1019, 7835, 1525,
    3087, 6806, 6437, 5561, 7978, 6379, 6601, 6126, 5288, 6841, 9325, 8192, 7034, 4831, 4037, 967,
    805, 1079, 5624, 8983, 5149, 3988, 3463, 1207, 8542, 3066, 8782, 3457, 365, 7862, 3641, 7334,
    8825, 1301, 3336, 3832, 421, 6118, 2695, 8212, 9983, 8615, 4382, 5613, 2192, 7241, 447, 6134,
    8944, 3727, 4960, 2799, 9354, 5921, 9127, 8369, 9287, 766, 4847, 3237, 1037, 3871, 8661, 6198,
    3636, 9723, 9938, 7784, 6530, 6833, 8896, 2130, 7432, 1838, 5657, 3370, 6858, 2863, 5126, 1333,
    87, 926, 8023, 2738, 8488, 6554, 727, 9947, 152, 3776, 581, 8031, 7636, 8905, 2444, 8276,
    1391, 4811, 3170, 4930, 3392, 9901, 4844, 1429, 94, 1889, 8520, 3142, 2590, 5427, 7526, 8012,
    8156, 9269, 1514, 3228, 5421, 6803, 9432, 9511, 828, 8316, 5184, 5490, 288, 9657, 4637, 2312,
    356, 4691, 6342, 4099, 7034, 6910, 7312, 1264, 3592, 1404, 8961, 2971, 1937, 3679, 1098, 7325,
    9111, 2526, 4582, 5851, 7753, 4585, 4833, 9962, 2539, 1524, 6155, 1391, 2952, 367, 7099, 7258,
    4417, 2344, 4432, 5596, 1093, 8210, 3747, 6007, 471, 2007, 2762, 7483, 5954, 2874, 695, 7648,
    2914, 7145, 1107, 5834, 6348, 719, 4431, 7301, 1523, 2679, 2548, 5005, 6211, 8943, 4617, 6801,
    3783, 1410, 7236, 6817, 4017, 8432, 5744, 7414, 451, 130, 6120, 4724, 4497, 8037, 127, 1472,
    8020, 3094, 1039, 2580, 80, 7682, 2636, 8800, 5639, 940, 3253, 180, 7878, 4991, 2429, 1735,
    5433, 6348, 8785, 1692, 680, 1962, 7150, 7421, 4472, 9459, 5503, 4573, 7945, 1814, 5374, 3873,
    7559, 6563, 6203, 5572, 193, 8570, 9050, 6124, 5726, 3455, 5988, 6997, 1984, 3514, 7278, 4897,
    8561, 6395, 4501, 6814, 9763, 8718, 3478, 1285, 2022, 957, 1735, 8948, 369, 7794, 1961, 6573,
    9933, 1663, 4526, 4028, 3681, 4390, 7794, 9447, 9989, 5244, 8901, 1307, 3702, 6322, 7431, 5352,
    1725, 5710, 6367, 1954, 8159, 8164, 1489, 2037, 3364, 16, 2672, 2636, 5359, 7865, 8612, 2077,
    8670, 6026, 831, 563, 5450, 5560, 9477, 7447, 677, 4566, 3907, 2384, 9807, 1913, 4293, 4281,
    3635, 4061, 2044, 1698, 9658, 1149, 7477, 9305, 2987, 8106, 9318, 6237, 4598, 1582, 8555, 2704,
    1843, 1723, 6110, 6468, 2549, 3143, 7419, 5471, 9922, 1825, 5231, 5143, 2695, 2674, 4771, 7619,
    8278, 9318, 6101, 7194, 5871, 6174, 4583, 9566, 822, 2830, 6057, 7639, 4139, 8805, 8807, 1593,
    6685, 8974, 770, 8061, 5957, 2307, 1744, 7705, 8368, 6228, 6102, 8858, 6815, 3687, 9331, 176,
    9935, 3436, 1710, 3064, 1695, 8012, 4627, 6566, 2165, 8463, 4755, 2064, 630, 2754, 2046, 8142,
    5459, 2136, 3956, 8569, 3494, 4523, 9421, 3561, 5008, 8961, 8636, 9387, 795, 8165, 8456, 7779,
    3156, 9310, 4581, 9234, 2599, 9700, 9502, 898, 3102, 3604, 637, 3057, 5923, 1434, 5725, 5072,
    127, 6174, 7080, 6898, 7401, 3183, 237, 3520, 2639, 6392, 7746, 235, 8948, 1975, 2006, 9848,
    8337, 7092, 3979, 1509, 6066, 4877, 2081, 5330, 1706, 8169, 220, 8673, 5129, 9490, 7688, 296,
    6861, 2059, 9251, 9300, 719, 1015, 9517, 5015, 922, 7673, 9635, 1143, 4667, 6067, 2878, 6696,
    8715, 6618, 671, 1612, 4451, 762, 3628, 3405, 5837, 5216, 8720, 3862, 5860, 628, 9319, 948,
    7148, 6909, 9693, 9660, 9125, 8431, 5753, 966, 2426, 3218, 919, 362, 729, 3378, 5850, 4533,
    9674, 5459, 5464, 5965, 5347, 2688, 3601, 918, 4765, 7456, 2317, 6514, 6410, 8541, 5508, 5973,
    6217, 6394, 115, 7578, 5623, 1391, 4096, 1078, 6568, 5210, 5023, 1346, 8096, 5419, 2022, 2608,
    2753, 8395, 4757, 4887, 5594, 856, 4115, 8898, 3785, 3736, 9806, 7064, 9964, 6466, 7975, 5833,
    9620, 7010, 7776, 4030, 9872, 115, 5700, 6906, 780, 8716, 4197, 6247, 8100, 3823, 7619, 2666,
    7798, 39, 8142, 1966, 963, 910, 667, 2173, 8762, 778, 9616, 4397, 2281, 7508, 6940, 678,
    5185, 2759, 7110, 5370, 5617, 3224, 1627, 7353, 1578, 3563, 6551, 4551, 4168, 1166, 2303, 105,
    9442, 3827, 3340, 8428, 2114, 6897, 6188, 2081, 272, 3586, 6551, 8575, 1851, 701, 875, 7003,
    9541, 7787, 5818, 2902, 9008, 3363, 3019, 5237, 7393, 5214, 2019, 8587, 1750, 9274, 9726, 9238,
    5822, 1944, 1828, 5852, 4491, 6272, 696, 2065, 9427, 5683, 7315, 8763, 2929, 8383, 5557, 1633,
    690, 2833, 929, 3131, 2914, 6221, 7311, 5199, 7267, 2927, 2324, 6669, 2795, 5894, 39, 3010,
    8706, 3559, 2777, 5334, 7764, 959, 9721, 8871, 5842, 741, 1779, 9964, 3999, 5, 925, 3012,
    8672, 4109, 9920, 8327, 5836, 1081, 2937, 9615, 9790, 3585, 2680, 7075, 6777, 6262, 7866, 9064,
    6216, 2270, 293, 2424, 3527, 6271, 2524, 1451, 1213, 5272, 2888, 1975, 7737, 1758, 9432, 4880,
    3063, 4192, 9779, 1798, 8014, 7491, 3072, 7005, 9760, 7527, 9439, 9274, 4079, 6586, 3739, 3302,
    3841, 7880, 9281, 2266, 9485, 9244, 5045, 5307, 638, 6912, 6446, 9550, 378, 2276, 5886, 124,
    108, 293, 1522, 1838, 5278, 5951, 3916, 9283, 5992, 8358, 3523, 4061, 2949, 4358, 1937, 7641,
    8820, 9849, 3403, 9815, 2718, 4639, 7893, 5077, 660, 3211, 1672, 6962, 3894, 6595, 6453, 6315,
    1473, 5178, 2996, 6881, 2524, 4504, 6115, 4269, 5608, 6785, 4470, 8165, 6486, 4559, 9377, 8326,
    5467, 7955, 2667, 4419, 3370, 3764, 5589, 3054, 7073, 906, 5946, 6685, 8815, 8130, 2558, 7850,
    2498, 1479, 6815, 849, 8354, 3485, 3242, 9292, 6453, 7736, 4547, 1351, 5219, 1218, 6884, 2348,
    2679, 8751, 6317, 2911, 2124, 6343, 6419, 6405, 2132, 8642, 6153, 1415, 2255, 1294, 8682, 6874,
    9781, 8389, 6165, 2023, 5082, 3286, 1568, 9221, 8554, 2641, 314, 562, 8730, 8197, 6735, 7016,
    7088, 6907, 7979, 283, 1981, 1811, 3650, 6961, 189, 7200, 7069, 2258, 1339, 9357, 6499, 5171,
    153, 1500, 2097, 4690, 6514, 2120, 1928, 1608, 6109, 5972, 1494, 6142, 5146, 2650, 5782, 1127,
    6611, 948, 8570, 5549, 8590, 3683, 6440, 7400, 1051, 4950, 8184, 3996, 6783, 2973, 5418, 9939,
    946, 9324, 3835, 2722, 5851, 2973, 3918, 7160, 8729, 6018, 6105, 755, 9931, 2804, 1865, 2857,
    9099, 4579, 6787, 9412, 7492, 1979, 633, 1724, 9394, 6973, 4972, 513, 1292, 3345, 6733, 5977,
    9480, 1546, 697, 7815, 9106, 1905, 1700, 2200, 7347, 1171, 5100, 8273, 3822, 773, 5170, 8206,
    1678, 8394, 7804, 7600, 5067, 8422, 4581, 9375, 1702, 808, 6073, 736, 9349, 5611, 825, 5338,
    6860, 9299, 5623, 3121, 2463, 1789, 4261, 318, 8745, 9932, 5842, 822, 1777, 6513, 2836, 1254,
    2549, 9239, 7819, 2033, 8679, 990, 6569, 5306, 1087, 6652, 7710, 2980, 7143, 3330, 9108, 4124,
    561, 6248, 1373, 752, 5719, 6063, 5065, 8144, 6725, 4814, 4149, 9904, 4666, 7904, 5983, 9842
  >>

\* seededRandom: x = Math.sin(seed++) * 10000; return x - Math.floor(x).
\* The post-increment changes the parameter only.
seededRandom(seed) == SinFrac[seed + 1]

\* layers.map(l => l.neurons), read through the references.
Neurons(h, ls) == [i \in 1..Len(ls) |-> h[ls[i]].neurons]

isHoriz(s) == s.direction = "horizontal"

effectiveCountNoLastCheck(ns, s, layerIdx) ==
  IF s.showBias THEN ns[layerIdx + 1] + 1 ELSE ns[layerIdx + 1]

\* layerIdx is 0-based, as in the code.
effectiveCount(ns, s, layerIdx) ==
  IF s.showBias /\ layerIdx # Len(ns) - 1
    THEN ns[layerIdx + 1] + 1
    ELSE ns[layerIdx + 1]

layoutLength(ns, s) == Scale * (Len(ns) - 1) * s.layerSpacing

centerX(d) == (Scale * d.width) \div 2
centerY(d) == (Scale * d.height) \div 2

startMainAxisUncentered(ns, s, d) ==
  IF isHoriz(s) THEN centerX(d) - layoutLength(ns, s)
                ELSE centerY(d) - layoutLength(ns, s)

startMainAxis(ns, s, d) ==
  IF isHoriz(s) THEN centerX(d) - (layoutLength(ns, s) \div 2)
                ELSE centerY(d) - (layoutLength(ns, s) \div 2)

\* nodeDiameter * 2.5
nodeSpacing(s) == (Scale * s.nodeDiameter * 5) \div 2

layerHeight(ns, s, layerIdx) == (effectiveCount(ns, s, layerIdx) - 1) * nodeSpacing(s)

layerMainPos(ns, s, d, layerIdx) ==
  startMainAxis(ns, s, d) + layerIdx * Scale * s.layerSpacing

layerCrossPos(ns, s, d, layerIdx, i) ==
  (IF isHoriz(s) THEN centerY(d) ELSE centerX(d))
    - (layerHeight(ns, s, layerIdx) \div 2) + i * nodeSpacing(s)

isBiasNoLastCheck(ns, s, layerIdx, i) ==
  s.showBias /\ i = effectiveCount(ns, s, layerIdx) - 1

\* settings.showBias && layerIdx !== layers.length - 1 && i === effectiveCount - 1
isBias(ns, s, layerIdx, i) ==
  s.showBias /\ layerIdx # Len(ns) - 1 /\ i = effectiveCount(ns, s, layerIdx) - 1

\* The object pushed for neuron i (0-based) of layer layerIdx (0-based).
Node(ns, s, d, layerIdx, i) ==
  [id |-> <<layerIdx, i>>,
   layerIndex |-> layerIdx,
   neuronIndex |-> i,
   x |-> IF isHoriz(s) THEN layerMainPos(ns, s, d, layerIdx)
                       ELSE layerCrossPos(ns, s, d, layerIdx, i),
   y |-> IF isHoriz(s) THEN layerCrossPos(ns, s, d, layerIdx, i)
                       ELSE layerMainPos(ns, s, d, layerIdx),
   isBias |-> isBias(ns, s, layerIdx, i)]

\* The inner for loop: the nodes of one layer, in index order.
LayerNodes(ns, s, d, layerIdx) ==
  [k \in 1..effectiveCount(ns, s, layerIdx) |-> Node(ns, s, d, layerIdx, k - 1)]

\* layers.forEach: the nodes of layers 0 .. upTo-1, in push order.
RECURSIVE NodesUpTo(_, _, _, _)
NodesUpTo(ns, s, d, upTo) ==
  IF upTo = 0 THEN <<>>
  ELSE NodesUpTo(ns, s, d, upTo - 1) \o LayerNodes(ns, s, d, upTo - 1)

computeNodes(ns, s, d) == NodesUpTo(ns, s, d, Len(ns))

isTargetAnyRole(source, n) == n.layerIndex = source.layerIndex + 1

isTargetAnyLaterLayer(source, n) == n.layerIndex > source.layerIndex /\ ~n.isBias

\* nodes.filter(n => n.layerIndex === source.layerIndex + 1) followed by the
\* test !target.isBias: the nodes that get a link from source.
isTarget(source, n) == n.layerIndex = source.layerIndex + 1 /\ ~n.isBias

\* The positions in nodes of the targets of source, in filter order.
Targets(ndes, source) ==
  LET idx == [p \in 1..Len(ndes) |-> p]
  IN  SelectSeq(idx, LAMBDA p : isTarget(source, ndes[p]))

counterAtPreIncrement(counter, k) == counter + k

\* seededRandom(weightCounter++): the k-th link pushed since the counter was
\* counter is given the value before its own increment.
counterAt(counter, k) == counter + k - 1

\* targets.forEach for the source at position p: the k-th link pushed takes
\* counter + k - 1.  source and target are references to node objects: the
\* position of the node in nodes.
SourceLinks(ndes, p, counter) ==
  LET ts == Targets(ndes, ndes[p])
  IN  [k \in 1..Len(ts) |->
         [id |-> <<ndes[p].id, ndes[ts[k]].id>>,
          source |-> p,
          target |-> ts[k],
          weight |-> seededRandom(counterAt(counter, k))]]

\* nodes.forEach(source => ...): the links of sources lo .. hi, in push
\* order, the first of them taking counter.  The range is split in halves
\* (the evaluation order is the loop's: every source of lo .. mid before any
\* of mid+1 .. hi, the counter running on).
RECURSIVE LinksOfRange(_, _, _, _)
LinksOfRange(ndes, lo, hi, counter) ==
  IF lo > hi THEN <<>>
  ELSE IF lo = hi THEN SourceLinks(ndes, lo, counter)
  ELSE LET mid == (lo + hi) \div 2
           before == LinksOfRange(ndes, lo, mid, counter)
       IN  before \o LinksOfRange(ndes, mid + 1, hi, counter + Len(before))

computeLinks(ndes, counter) == LinksOfRange(ndes, 1, Len(ndes), counter)

weightCounterCarried(s, wc) == wc

\* let weightCounter = settings.weightSeed; wc is the value the variable
\* held at the end of the previous pass, which the code does not read.
weightCounterStart(s, wc) == s.weightSeed

\* One run of the useMemo callback on (layers, settings, dimensions).
LayoutPass(h, ls, s, d) ==
  /\ nodes' = computeNodes(Neurons(h, ls), s, d)
  /\ links' = computeLinks(nodes', weightCounterStart(s, weightCounter))
  /\ weightCounter' = weightCounterStart(s, weightCounter) + Len(links')
  /\ rendered' = TRUE

\* ------------------------------------------------------- editing handlers

Min(a, b) == IF a < b THEN a ELSE b
Max(a, b) == IF a > b THEN a ELSE b

\* What a consumer that holds the array ls reads now: the references and,
\* through them, a copy of each object's fields.
Snapshot(h, ls) == [refs |-> ls, objs |-> [i \in 1..Len(ls) |-> h[ls[i]]]]

\* Date.now(): the clock does not run backwards and may return the value of
\* the previous read.
ClockReads == now .. Min(now + 1, MaxTime)

Op(name, index, value, key, emitted) ==
  [op |-> name, index |-> index, value |-> value, key |-> key, emitted |-> emitted]

\* One handler invocation is taken from the budget of the exploration.
Spend(kind) ==
  /\ budget.ops > 0
  /\ kind # "" => budget[kind] > 0
  /\ budget' = IF kind = ""
                 THEN [budget EXCEPT !.ops = @ - 1]
                 ELSE [budget EXCEPT !.ops = @ - 1, ![kind] = @ - 1]

clampLowOnly(value) == Max(MinNeurons, value)

\* Math.max(1, Math.min(50, value))
clampNeurons(value) == Max(MinNeurons, Min(MaxNeurons, value))

\* updateLayerNeuron(index, value), index 0-based.  newLayers = [...layers]
\* holds the same references as layers, and the assignment writes the field
\* of the object both arrays refer to.  onLayerChange(newLayers) replaces the
\* host state and the component renders again.  No handler writes an element
\* of an existing array, so an array is modelled by its value.
UpdateLayerNeuron(index, value) ==
  /\ Spend("neuronEdits")
  /\ index \in 0..(Len(layers) - 1)
  /\ held' = Snapshot(heap, layers)
  /\ heap' = [heap EXCEPT ![layers[index + 1]].neurons = clampNeurons(value)]
  /\ layers' = layers
  /\ LayoutPass(heap', layers', settings, dimensions)
  /\ lastOp' = Op("updateLayerNeuron", index, value, "", "layers")
  /\ UNCHANGED <<settings, dimensions, now>>

removeRefusedBelowTwo(ls) == Len(ls) < 2

\* if (layers.length <= 2) return;
removeRefused(ls) == Len(ls) <= 2

\* layers.filter((_, i) => i !== index), index 0-based.
WithoutIndex(ls, index) ==
  [i \in 1..(Len(ls) - 1) |-> IF i <= index THEN ls[i] ELSE ls[i + 1]]

\* removeLayer(index).  Refused: it returns before onLayerChange, so nothing
\* is replaced and nothing renders.
RemoveLayer(index) ==
  /\ Spend("")
  /\ index \in 0..(Len(layers) - 1)
  /\ held' = Snapshot(heap, layers)
  /\ IF removeRefused(layers)
       THEN /\ lastOp' = Op("removeLayer", index, 0, "", "none")
            /\ UNCHANGED <<heap, layers, settings, dimensions, now,
                           nodes, links, weightCounter, rendered>>
       ELSE /\ layers' = WithoutIndex(layers, index)
            /\ LayoutPass(heap, layers', settings, dimensions)
            /\ lastOp' = Op("removeLayer", index, 0, "", "layers")
            /\ UNCHANGED <<heap, settings, dimensions, now>>

appendedFirst(ls, addr) == <<addr>> \o ls

\* [...layers, <new object>]
appended(ls, addr) == ls \o <<addr>>

\* addLayer(): a new object { id: `l-${Date.now()}`, neurons: 5 } at a fresh
\* address, appended to a copy of the array.
AddLayer ==
  /\ Spend("")
  /\ \E t \in ClockReads :
       /\ now' = t
       /\ heap' = Append(heap, [id |-> LayerId("l-", t), neurons |-> DefaultNeurons])
  /\ held' = Snapshot(heap, layers)
  /\ layers' = appended(layers, Len(heap) + 1)
  /\ LayoutPass(heap', layers', settings, dimensions)
  /\ lastOp' = Op("addLayer", 0, 0, "", "layers")
  /\ UNCHANGED <<settings, dimensions>>

withKeyOverDefaults(s, key, value) ==
  [DEFAULT_SETTINGS(s.weightSeed) EXCEPT ![key] = value]

\* { ...settings, [key]: value }
withKey(s, key, value) == [s EXCEPT ![key] = value]

\* The Show Arrowheads checkbox: e.target.checked ? 'empty' : 'none'.
arrowBox(checked) == IF checked THEN "empty" ELSE "none"

\* settings.arrowheads !== 'none': the Empty / Solid radios are rendered.
arrowRadiosShown(s) == s.arrowheads # "none"

\* The values the widgets of the panel pass to updateSetting for a field
\* while the settings are s.  A checkbox passes e.target.checked, a pair of
\* radios its two literals; the arrowheads field has the checkbox and, while
\* they are rendered, the two radios.  A colour picker and a slider pass any
\* value of their range, of which one is taken here (the sliders: 5..50
\* and 50..400, through parseInt).
SettingInputs(s, key) ==
  CASE key = "edgeColor" -> {"#ff0000"}
    [] key = "useBezier" -> BOOLEAN
    [] key = "nodeDiameter" -> {33}
    [] key = "nodeColor" -> {"#000000"}
    [] key = "nodeBorderColor" -> {"#0000ff"}
    [] key = "layerSpacing" -> {175}
    [] key = "direction" -> {"horizontal", "vertical"}
    [] key = "showBias" -> BOOLEAN
    [] key = "showLabels" -> BOOLEAN
    [] key = "arrowheads" ->
         {arrowBox(checked) : checked \in BOOLEAN}
           \cup (IF arrowRadiosShown(s) THEN {"empty", "solid"} ELSE {})

\* updateSetting(key, value) from a widget of the panel.
UpdateSetting(key, value) ==
  /\ Spend("settingOps")
  /\ held' = Snapshot(heap, layers)
  /\ settings' = withKey(settings, key, value)
  /\ LayoutPass(heap, layers, settings', dimensions)
  /\ lastOp' = Op("updateSetting", 0, 0, key, "settings")
  /\ UNCHANGED <<heap, layers, dimensions, now>>

\* The New Random Weights button: updateSetting('weightSeed', Date.now()).
RerollWeights ==
  /\ Spend("settingOps")
  /\ \E t \in ClockReads :
       /\ now' = t
       /\ settings' = withKey(settings, "weightSeed", t)
  /\ held' = Snapshot(heap, layers)
  /\ LayoutPass(heap, layers, settings', dimensions)
  /\ lastOp' = Op("updateSetting", 0, 0, "weightSeed", "settings")
  /\ UNCHANGED <<heap, layers, dimensions>>

\* A size of the container reported by the browser.
DimInputs == {[width |-> 1025, height |-> 771]}

\* handleResize: setDimensions({clientWidth, clientHeight}), then a render.
Resize(d) ==
  /\ Spend("")
  /\ held' = Snapshot(heap, layers)
  /\ dimensions' = d
  /\ LayoutPass(heap, layers, settings, dimensions')
  /\ lastOp' = Op("resize", 0, 0, "", "dimensions")
  /\ UNCHANGED <<heap, layers, settings, now>>

\* A run of the useMemo callback on the props as they are.
Render ==
  /\ budget.renders > 0
  /\ budget' = [budget EXCEPT !.renders = @ - 1]
  /\ LayoutPass(heap, layers, settings, dimensions)
  /\ lastOp' = Op("render", 0, 0, "", "none")
  /\ UNCHANGED <<heap, layers, settings, dimensions, now, held>>

\* parseInt(e.target.value) || 1 of the number input: a text that parses to
\* 0 (as one that does not parse, NaN) is falsy and gives 1.
numberInputValue(parsed) == IF parsed = 0 THEN 1 ELSE parsed

\* Integers the text of the number input parses to.  Its min and max
\* attributes do not stop a typed or pasted text outside 1..50.
TypedNumbers == {-5, 0, 75}

\* A position of the range input (min 1, max 32), passed as parsed.
SliderValues == {7}

\* The values the two neuron-count inputs of a layer row pass to
\* updateLayerNeuron.
NeuronInputs ==
  {numberInputValue(parsed) : parsed \in TypedNumbers} \cup SliderValues

\* ---------------------------------------------------------- specifications

\* The application after its first render: useState(DEFAULT_LAYERS),
\* useState(DEFAULT_SETTINGS), dimensions {800, 600}.
Init ==
  /\ heap = DefaultHeap
  /\ layers = DEFAULT_LAYERS
  /\ now = 0
  /\ settings = DEFAULT_SETTINGS(0)
  /\ dimensions = [width |-> InitWidth, height |-> InitHeight]
  /\ nodes = computeNodes(Neurons(heap, layers), settings, dimensions)
  /\ links = computeLinks(nodes, settings.weightSeed)
  /\ weightCounter = settings.weightSeed + Len(links)
  /\ rendered = TRUE
  /\ lastOp = Op("init", 0, 0, "", "none")
  /\ held = Snapshot(heap, layers)
  /\ budget = [ops |-> MaxOps, neuronEdits |-> MaxNeuronEdits,
               settingOps |-> MaxSettingOps, renders |-> 0]

Next ==
  \/ \E index \in 0..(Len(layers) - 1), value \in NeuronInputs :
       UpdateLayerNeuron(index, value)
  \/ \E index \in 0..(Len(layers) - 1) : RemoveLayer(index)
  \/ AddLayer
  \/ \E key \in SettingKeys \ {"weightSeed"} :
       \E value \in SettingInputs(settings, key) : UpdateSetting(key, value)
  \/ RerollWeights
  \/ \E d \in DimInputs : Resize(d)

Spec == Init /\ [][Next]_vars

\* All sequences over 1..n of length 0..len.
RECURSIVE SeqsUpTo(_, _)
SeqsUpTo(n, len) ==
  IF len = 0 THEN {<<>>}
  ELSE LET shorter == SeqsUpTo(n, len - 1)
       IN  shorter \cup {Append(q, v) : q \in {r \in shorter : Len(r) = len - 1},
                                          v \in 1..n}

\* Props drawn from bounded sets: a layer sequence, the settings fields the
\* layout reads, the arrowheads field (from arrowSet), a seed and a
\* container size.
DrawnProps(arrowSet) ==
  /\ \E ns \in SeqsUpTo(MaxInitNeurons, MaxInitLayers) \ {<<>>} :
       /\ heap = [i \in 1..Len(ns) |-> [id |-> LayerId("l", i), neurons |-> ns[i]]]
       /\ layers = [i \in 1..Len(ns) |-> i]
  /\ now \in 0..MaxTime
  /\ \E bias \in BOOLEAN, dir \in {"horizontal", "vertical"}, spacing \in {50, 175},
        arrows \in arrowSet :
       settings = [DEFAULT_SETTINGS(now) EXCEPT !.showBias = bias,
                     !.direction = dir, !.layerSpacing = spacing,
                     !.arrowheads = arrows]
  /\ dimensions \in DimInputs \cup {[width |-> InitWidth, height |-> InitHeight]}
  /\ lastOp = Op("init", 0, 0, "", "none")
  /\ held = Snapshot(heap, layers)

\* The layout pass as a function of its inputs: no pass has run yet, and the
\* only step is a pass.
InitLayout ==
  /\ DrawnProps({"none"})
  /\ nodes = <<>>
  /\ links = <<>>
  /\ weightCounter = 0
  /\ rendered = FALSE
  /\ budget = [ops |-> 0, neuronEdits |-> 0, settingOps |-> 0,
               renders |-> MaxRenders]

NextLayout == Render

LayoutSpec == InitLayout /\ [][NextLayout]_vars

\* One handler invocation from each drawn state, rendered once.
InitEdit ==
  /\ DrawnProps({"none", "empty"})
  /\ now = 0
  /\ dimensions = [width |-> InitWidth, height |-> InitHeight]
  /\ nodes = computeNodes(Neurons(heap, layers), settings, dimensions)
  /\ links = computeLinks(nodes, settings.weightSeed)
  /\ weightCounter = settings.weightSeed + Len(links)
  /\ rendered = TRUE
  /\ budget = [ops |-> 1, neuronEdits |-> 1, settingOps |-> 1, renders |-> 0]

EditSpec == InitEdit /\ [][Next]_vars

\* ------------------------------------------------------------ properties

\* The neuron counts the current pass was run on.
CurNeurons == Neurons(heap, layers)

\* The effective node count of layer i (0-based) as the specification
\* states it.
ExpectedCount(i) ==
  IF settings.showBias /\ i # Len(layers) - 1
    THEN CurNeurons[i + 1] + 1
    ELSE CurNeurons[i + 1]

RECURSIVE SumExpected(_)
SumExpected(n) == IF n = 0 THEN 0 ELSE SumExpected(n - 1) + ExpectedCount(n - 1)

RECURSIVE SumNeurons(_)
SumNeurons(n) == IF n = 0 THEN 0 ELSE SumNeurons(n - 1) + CurNeurons[n]

\* C1: a layout pass produces exactly the sum over the layers of
\* effectiveCount(i) nodes; that is, the sum of the neuron counts plus, when
\* showBias is true, one per non-final layer (layers.length - 1 more than
\* with showBias false).
C1_NodeCount ==
  rendered =>
    /\ Len(nodes) = SumExpected(Len(layers))
    /\ Len(nodes) = SumNeurons(Len(layers))
                      + (IF settings.showBias THEN Len(layers) - 1 ELSE 0)

C1_Witness ==
  /\ rendered
  /\ settings.showBias
  /\ CurNeurons = <<3, 1, 2>>
  /\ Len(nodes) = 8

\* The links that arrive at the node at position q.
Incoming(q) == {k \in DOMAIN links : links[k].target = q}

\* C2: no link has a bias node as its target, and every non-bias node of
\* layer i+1 is the target of exactly effectiveCount(i) links, one from each
\* node of layer i (its bias node included) and none from any other layer.
C2_IncomingLinks ==
  rendered =>
    /\ \A k \in DOMAIN links : ~nodes[links[k].target].isBias
    /\ \A q \in DOMAIN nodes :
         (~nodes[q].isBias /\ nodes[q].layerIndex >= 1) =>
           /\ Cardinality(Incoming(q)) = ExpectedCount(nodes[q].layerIndex - 1)
           /\ \A k \in Incoming(q) :
                nodes[links[k].source].layerIndex = nodes[q].layerIndex - 1
           /\ \A p \in DOMAIN nodes :
                nodes[p].layerIndex = nodes[q].layerIndex - 1 =>
                  Cardinality({k \in Incoming(q) : links[k].source = p}) = 1

\* Three layers with bias: layer 1 has a bias node, which is a candidate
\* target of every node of layer 0 and a source of links into layer 2.
C2_Witness ==
  /\ rendered
  /\ settings.showBias
  /\ Len(layers) = 3
  /\ \E q \in DOMAIN nodes : nodes[q].isBias /\ nodes[q].layerIndex = 1
  /\ \E k \in DOMAIN links :
       nodes[links[k].source].isBias /\ nodes[links[k].source].layerIndex = 1

\* The main-axis coordinate of a node, in quarter pixels.
MainAxis(n) == IF settings.direction = "horizontal" THEN n.x ELSE n.y

\* The viewport's main-axis center, in quarter pixels.
MainCenter ==
  IF settings.direction = "horizontal"
    THEN (Scale * dimensions.width) \div 2
    ELSE (Scale * dimensions.height) \div 2

\* C6: the nodes of one layer share one main-axis coordinate, consecutive
\* layers differ by exactly layerSpacing, the first layer is at
\* center - (layers.length - 1) * layerSpacing / 2, and first + last is
\* twice the center.
C6_MainAxis ==
  rendered =>
    /\ \A p, q \in DOMAIN nodes :
         /\ nodes[p].layerIndex = nodes[q].layerIndex =>
              MainAxis(nodes[p]) = MainAxis(nodes[q])
         /\ nodes[q].layerIndex = nodes[p].layerIndex + 1 =>
              MainAxis(nodes[q]) - MainAxis(nodes[p]) = Scale * settings.layerSpacing
    /\ Len(nodes) > 0 =>
         /\ 2 * MainAxis(nodes[1])
              = 2 * MainCenter - (Len(layers) - 1) * Scale * settings.layerSpacing
         /\ MainAxis(nodes[1]) + MainAxis(nodes[Len(nodes)]) = 2 * MainCenter

\* Three layers laid out vertically in a container of odd height, with an
\* odd spacing.
C6_Witness ==
  /\ rendered
  /\ settings.direction = "vertical"
  /\ settings.layerSpacing = 175
  /\ dimensions.height = 771
  /\ Len(layers) = 3
  /\ nodes[1].y = 2 * 771 - Scale * 175
  /\ nodes[Len(nodes)].y = 2 * 771 + Scale * 175

\* The pairs (source, target) the specification asks a link for.
ExpectedPairs ==
  {pq \in (DOMAIN nodes) \X (DOMAIN nodes) :
     /\ nodes[pq[2]].layerIndex = nodes[pq[1]].layerIndex + 1
     /\ ~nodes[pq[2]].isBias}

RECURSIVE SumProducts(_)
SumProducts(n) ==
  IF n = 0 THEN 0
  ELSE SumProducts(n - 1) + ExpectedCount(n - 1) * CurNeurons[n + 1]

\* C7: exactly one link for each pair of a node of layer i (bias included)
\* and a non-bias node of layer i+1, and no other link; the link count is
\* the sum over i < layers.length - 1 of effectiveCount(i) * neurons[i+1]
\* (layers 3,2: 6 links without bias, 8 with).
C7_LinkPairs ==
  rendered =>
    /\ {<<links[k].source, links[k].target>> : k \in DOMAIN links} = ExpectedPairs
    /\ Len(links) = Cardinality(ExpectedPairs)
    /\ \A k \in DOMAIN links :
         /\ nodes[links[k].target].layerIndex = nodes[links[k].source].layerIndex + 1
         /\ links[k].id = <<nodes[links[k].source].id, nodes[links[k].target].id>>
    /\ Len(links) = SumProducts(Len(layers) - 1)
    /\ CurNeurons = <<3, 2>> => Len(links) = IF settings.showBias THEN 8 ELSE 6

C7_Witness ==
  /\ rendered
  /\ CurNeurons = <<3, 2>>
  /\ settings.showBias
  /\ Len(nodes) = 6
  /\ Len(links) = 8

\* C8: a pass run on the same layers, settings and container size as the
\* pass before it yields the same nodes and the same links, weights
\* included.
C8_Deterministic ==
  [][(/\ rendered
      /\ rendered'
      /\ Neurons(heap', layers') = Neurons(heap, layers)
      /\ settings' = settings
      /\ dimensions' = dimensions)
       => (nodes' = nodes /\ links' = links)]_vars

\* Two passes have run on the same props, each giving links.
C8_Witness ==
  /\ rendered
  /\ budget.renders = 0
  /\ lastOp.op = "render"
  /\ Len(links) >= 2
  /\ links[1].weight # links[2].weight

\* C3: no edit changes, in place, a field of the layers value held before
\* it or of its layer objects: the holder of the previous array reads the
\* same objects as before, and the objects of DEFAULT_LAYERS keep their
\* neuron counts.
C3_NoInPlaceMutation ==
  /\ \A i \in DOMAIN held.refs : heap[held.refs[i]] = held.objs[i]
  /\ [i \in 1..4 |-> heap[DEFAULT_LAYERS[i]].neurons] = <<18, 12, 10, 1>>

\* C4: from the defaults the layer sequence never gets shorter than 2, and
\* removeLayer invoked on exactly 2 layers changes nothing and emits no
\* change notification.
C4_AtLeastTwoLayers ==
  /\ Len(layers) >= 2
  /\ (lastOp.op = "removeLayer" /\ Len(held.refs) = 2) =>
       /\ layers = held.refs
       /\ Snapshot(heap, layers) = held
       /\ lastOp.emitted = "none"

C4_Witness ==
  /\ lastOp.op = "removeLayer"
  /\ Len(held.refs) = 2
  /\ Len(layers) = 2
  /\ lastOp.emitted = "none"

\* max(1, min(50, v)) as the specification states it.
Clamped(v) == IF v < 1 THEN 1 ELSE IF v > 50 THEN 50 ELSE v

\* C5: setting a layer's neuron count to v stores max(1, min(50, v)) for
\* that layer (a value below 1 gives 1, 75 gives 50), and from the defaults
\* every neuron count stays in 1..50.  The handler is never passed 0: the
\* number input passes 1 for a text that parses to 0.
C5_NeuronsClamped ==
  /\ lastOp.op = "updateLayerNeuron" =>
       /\ heap[layers[lastOp.index + 1]].neurons = Clamped(lastOp.value)
       /\ lastOp.value = -5 => heap[layers[lastOp.index + 1]].neurons = 1
       /\ lastOp.value = 75 => heap[layers[lastOp.index + 1]].neurons = 50
  /\ \A i \in DOMAIN layers : heap[layers[i]].neurons \in 1..50

C5_Witness ==
  /\ lastOp.op = "updateLayerNeuron"
  /\ lastOp.value = 75
  /\ heap[layers[lastOp.index + 1]].neurons = 50
  /\ held.objs[lastOp.index + 1].neurons = 12

\* C9: addLayer appends exactly one layer with 5 neurons: the sequence is
\* one longer, its last element has 5 neurons, and the elements before it
\* are the previous layers in the same order with the same ids and counts.
C9_AddAppends ==
  lastOp.op = "addLayer" =>
    /\ lastOp.emitted = "layers"
    /\ Len(layers) = Len(held.refs) + 1
    /\ heap[layers[Len(layers)]].neurons = 5
    /\ \A i \in DOMAIN held.refs :
         /\ layers[i] = held.refs[i]
         /\ heap[layers[i]] = held.objs[i]

C9_Witness ==
  /\ lastOp.op = "addLayer"
  /\ Len(layers) = 5
  /\ heap[layers[5]].neurons = 5
  /\ [i \in 1..4 |-> heap[layers[i]].neurons] = <<18, 12, 10, 1>>

\* C10: setting one settings field (the reroll sets weightSeed) changes that
\* field only: layers and every other settings field are unchanged, and
\* after a reroll the nodes are the same and the links have the same ids,
\* sources and targets in the same order.
C10_OneFieldOnly ==
  [][(lastOp'.op = "updateSetting" /\ budget' # budget) =>
       /\ \A k \in SettingKeys \ {lastOp'.key} : settings'[k] = settings[k]
       /\ layers' = layers
       /\ heap' = heap
       /\ lastOp'.key = "weightSeed" =>
            /\ nodes' = nodes
            /\ Len(links') = Len(links)
            /\ \A k \in DOMAIN links :
                 /\ links'[k].id = links[k].id
                 /\ links'[k].source = links[k].source
                 /\ links'[k].target = links[k].target]_vars

\* A reroll to a new seed on a layout with bias nodes: the weights changed.
C10_Witness ==
  /\ lastOp.op = "updateSetting"
  /\ lastOp.key = "weightSeed"
  /\ settings.weightSeed = 1
  /\ settings.showBias
  /\ Len(layers) = 3
  /\ links[1].weight = seededRandom(1)

\* C11: a node is a bias node exactly when showBias is true, its layer is
\* not the last and its index in the layer equals the layer's neuron count:
\* with showBias every non-final layer has exactly one bias node, its last
\* node, the final layer has none, and without showBias no node is one.
C11_BiasNodes ==
  rendered =>
    /\ \A p \in DOMAIN nodes :
         nodes[p].isBias <=>
           /\ settings.showBias
           /\ nodes[p].layerIndex # Len(layers) - 1
           /\ nodes[p].neuronIndex = CurNeurons[nodes[p].layerIndex + 1]
    /\ \A l \in 0..(Len(layers) - 1) :
         LET inLayer == {p \in DOMAIN nodes : nodes[p].layerIndex = l}
             bias == {p \in inLayer : nodes[p].isBias}
         IN  /\ Cardinality(bias) =
                  IF settings.showBias /\ l # Len(layers) - 1 THEN 1 ELSE 0
             /\ \A p \in bias, q \in inLayer :
                  nodes[q].neuronIndex <= nodes[p].neuronIndex /\ q <= p

\* Three layers with bias: layers 0 and 1 end with a bias node, layer 2
\* does not.
C11_Witness ==
  /\ rendered
  /\ settings.showBias
  /\ CurNeurons = <<2, 3, 1>>
  /\ Len(nodes) = 8
  /\ nodes[3].isBias /\ nodes[3].id = <<0, 2>>
  /\ nodes[7].isBias /\ nodes[7].id = <<1, 3>>
  /\ ~nodes[8].isBias

\* The place of a link in the emission order.
LinkKey(l) ==
  <<nodes[l.source].layerIndex, nodes[l.source].neuronIndex,
    nodes[l.target].neuronIndex>>

LexLess(a, b) ==
  \/ a[1] < b[1]
  \/ a[1] = b[1] /\ a[2] < b[2]
  \/ a[1] = b[1] /\ a[2] = b[2] /\ a[3] < b[3]

\* C12: links are emitted in ascending order of (source layer, source index,
\* target index); the counter starts at settings.weightSeed and advances by
\* one per emitted link, so the k-th link (k from 0) has weight
\* frac(sin(weightSeed + k) * 10000), and a skipped bias candidate takes no
\* counter value.
C12_LinkOrderAndWeights ==
  rendered =>
    /\ \A k \in 1..(Len(links) - 1) : LexLess(LinkKey(links[k]), LinkKey(links[k + 1]))
    /\ \A k \in DOMAIN links : links[k].weight = SinFrac[settings.weightSeed + k]
    /\ weightCounter = settings.weightSeed + Len(links)

\* Layers 1,1,1 with bias and seed 1: the candidates of the first source are
\* the neuron and the bias node of layer 1; the bias node is skipped and the
\* next link takes the next counter value (frac(sin(1) * 10000) = .7098...,
\* frac(sin(2) * 10000) = .9742...).
C12_Witness ==
  /\ rendered
  /\ settings.showBias
  /\ settings.weightSeed = 1
  /\ CurNeurons = <<1, 1, 1>>
  /\ Len(links) = 4
  /\ links[1].id = <<<<0, 0>>, <<1, 0>>>> /\ links[1].weight = 7098
  /\ links[2].id = <<<<0, 1>>, <<1, 0>>>> /\ links[2].weight = 9742
  /\ links[3].id = <<<<1, 0>>, <<2, 0>>>>
  /\ links[4].id = <<<<1, 1>>, <<2, 0>>>>

\* C13: the ids of the layers in the sequence are pairwise distinct.
C13_DistinctLayerIds ==
  \A i, j \in DOMAIN layers : i # j => heap[layers[i]].id # heap[layers[j]].id

====
